---------------------------- MODULE Spec2Model ----------------------------
(***************************************************************************)
(* Storage layer of the casys graph engine: write-ahead log, manifest      *)
(* chain, composite backend and the engine's per-branch writer lock.       *)
(*                                                                         *)
(* File names are kept as sequences of character codes so that the byte    *)
(* order used by the directory listings is the code's order: a decimal     *)
(* digit d is the code d, and the separators keep their ASCII rank below   *)
(* the digits ('-' < '.' < '0').  The parts of a name shared by every file *)
(* of a directory ("wal-", "wal", "manifest-", "json") are left out: they  *)
(* never decide a comparison.                                              *)
(***************************************************************************)
EXTENDS Integers, Sequences, FiniteSets, TLC

VARIABLES
    wal,        \* WAL directory of the branch: file name -> [bytes, synced]
    walres,     \* last result returned by a WalSink / WalSource call
    nappend,    \* WalSink calls made so far
    ntorn,      \* WalSink calls that failed in the middle of a record
    clock,      \* SystemTime::now() in milliseconds
    mdir,       \* branch directory: file name -> inode
    inodes,     \* inode -> [bytes, synced]
    next_inode, \* next inode the filesystem hands out
    th,         \* per thread: position in its Engine call and its locals
    locks,      \* Engine::writer_locks: key -> owner of the mutex or "free"
    nops,       \* Engine calls started so far
    backend,    \* "fs" (Engine::open) or "composite" (open_fs_composite)
    rd,         \* last result returned to a reader
    store,      \* the InMemoryGraphStore
    segs,       \* segment store: segment id -> segment
    gres,       \* last result returned by a graph store call
    gops,       \* graph store calls made so far
    newbranch,  \* manifests of the branch create_branch writes to
    planned,    \* last MATCH clause planned, with its plan
    bfs,        \* traverse_variable_length: its arguments, queue, visited, result
    ev          \* last expression or query evaluated, with its result

(***************************************************************************)
(* Bounds of the model.                                                    *)
(***************************************************************************)
MaxAppends == 12        \* WalSink calls in one behaviour of SpecWal
MaxTornAppends == 3     \* WalSink calls in one behaviour of SpecTorn
MaxTorn == 1            \* appends that fail in the middle of a record
MaxOps == 2             \* Engine::snapshot / commit_tx calls in one behaviour
MaxTicks == 1           \* milliseconds the clock advances in one behaviour
MaxGraphOps == 3        \* graph store calls in one behaviour
IdBits == 3             \* width of NodeId / EdgeId in the model
DepthBits == 3        \* bits of a traversal depth (u32 in the program)
MaxDepth == 2         \* greatest finite depth of a DepthRange

(***************************************************************************)
(* Program constants.                                                      *)
(***************************************************************************)
MaxSegmentBytes == 4194304

\* the first reading of the millisecond clock
EpochStart == 9

DASH == -3
DOT == -2

None == [none |-> TRUE]
StorageIo == [err |-> "StorageIo"]

(***************************************************************************)
(* Decimal formatting and parsing (format!("{}", n) and str::parse::<u64>) *)
(***************************************************************************)
RECURSIVE ToDecimal(_)
ToDecimal(n) ==
    IF n < 10 THEN <<n>> ELSE Append(ToDecimal(n \div 10), n % 10)

IsDigits(s) == Len(s) > 0 /\ \A i \in 1..Len(s) : s[i] \in 0..9

RECURSIVE ParseDecimal(_)
ParseDecimal(s) ==
    IF Len(s) = 1 THEN s[1]
    ELSE 10 * ParseDecimal(SubSeq(s, 1, Len(s) - 1)) + s[Len(s)]

(***************************************************************************)
(* Byte-wise order of two file names (Ord for OsStr).                      *)
(***************************************************************************)
RECURSIVE NameLessFrom(_, _, _)
NameLessFrom(a, b, i) ==
    IF i > Len(b) THEN FALSE
    ELSE IF i > Len(a) THEN TRUE
    ELSE IF a[i] # b[i] THEN a[i] < b[i]
    ELSE NameLessFrom(a, b, i + 1)

NameLess(a, b) == NameLessFrom(a, b, 1)

\* Vec::sort_by(|a, b| a.file_name().cmp(&b.file_name())) on distinct names
SortNames(S) ==
    LET rank == [x \in S |-> Cardinality({y \in S : NameLess(y, x)})]
    IN [i \in 1..Cardinality(S) |-> CHOOSE x \in S : rank[x] = i - 1]

\* the last element of SortNames(S), for a non-empty S
LastName(S) == CHOOSE x \in S : \A y \in S : ~NameLess(x, y)

IndexOf(s, c) ==
    IF \E i \in 1..Len(s) : s[i] = c
    THEN CHOOSE i \in 1..Len(s) : s[i] = c /\ \A j \in 1..(i - 1) : s[j] # c
    ELSE 0

(***************************************************************************)
(* wal.rs                                                                  *)
(***************************************************************************)
wal_filename(epoch, seq) ==
    ToDecimal(epoch) \o <<DASH>> \o ToDecimal(seq) \o <<DOT>>

\* Some((epoch, seq)) or None
parse_seq_from_name(name) ==
    LET d == IndexOf(name, DASH)
        e == IndexOf(name, DOT)
    IN IF d > 1 /\ e = Len(name) /\ e > d + 1
          /\ IsDigits(SubSeq(name, 1, d - 1))
          /\ IsDigits(SubSeq(name, d + 1, e - 1))
       THEN [epoch |-> ParseDecimal(SubSeq(name, 1, d - 1)),
             seq |-> ParseDecimal(SubSeq(name, d + 1, e - 1))]
       ELSE None

WalNames(dir) == {n \in DOMAIN dir : parse_seq_from_name(n) # None}

list_wal_paths(dir) == SortNames(WalNames(dir))

\* list_wal_paths(..).last(), parsed: Some((epoch, seq)) or None
LastWalSegment(dir) ==
    IF WalNames(dir) = {} THEN None
    ELSE parse_seq_from_name(LastName(WalNames(dir)))

EmptyFile == [bytes |-> <<>>, synced |-> 0]

\* File::create: a new empty file, or the existing file truncated to length 0
FileCreate(dir, name) ==
    [n \in (DOMAIN dir) \cup {name} |-> IF n = name THEN EmptyFile ELSE dir[n]]

WalWriterOpen(dir) ==
    LET last == LastWalSegment(dir)
        next_epoch == IF last # None THEN last.epoch ELSE 0
        next_seq == IF last # None THEN last.seq + 1 ELSE 0
    IN [w |-> [epoch |-> next_epoch, seq |-> next_seq, bytes_written |-> 0],
        dir |-> FileCreate(dir, wal_filename(next_epoch, next_seq))]

\* a flush that returns Ok without sync_all()
WalFlushNoSync(st) == st

WalFlush(st) ==
    LET name == wal_filename(st.w.epoch, st.w.seq)
    IN [st EXCEPT !.dir[name].synced = Len(st.dir[name].bytes)]

WalRotate(st) ==
    [w |-> [st.w EXCEPT !.seq = st.w.seq + 1, !.bytes_written = 0],
     dir |-> FileCreate(st.dir, wal_filename(st.w.epoch, st.w.seq + 1))]

\* u32::to_le_bytes
LenBytes(n) ==
    <<n % 256, (n \div 256) % 256, (n \div 65536) % 256, (n \div 16777216) % 256>>

\* u32::from_le_bytes
LenFromBytes(b) == b[1] + 256 * b[2] + 65536 * b[3] + 16777216 * b[4]

Frame(payload) == LenBytes(Len(payload)) \o payload

\* the first `cut` bytes of the record's frame reach the file
WriteBytes(st, payload, cut) ==
    LET name == wal_filename(st.w.epoch, st.w.seq)
    IN [st EXCEPT !.dir[name].bytes = @ \o SubSeq(Frame(payload), 1, cut)]

WalWriteRecord(st, payload) ==
    LET need == 4 + Len(payload)
        s1 == IF st.w.bytes_written + need > MaxSegmentBytes
              THEN WalRotate(WalFlush(st))
              ELSE st
        s2 == WriteBytes(s1, payload, need)
    IN [s2 EXCEPT !.w.bytes_written = @ + need]

RECURSIVE WalWriteAll(_, _)
WalWriteAll(st, records) ==
    IF records = <<>> THEN st
    ELSE WalWriteAll(WalWriteRecord(st, Head(records)), Tail(records))

\* Ok(records) or StorageIo
RECURSIVE read_records(_)
read_records(bytes) ==
    IF Len(bytes) < 4 THEN [ok |-> <<>>]
    ELSE LET len == LenFromBytes(SubSeq(bytes, 1, 4))
         IN IF Len(bytes) - 4 < len THEN StorageIo
            ELSE LET rest == read_records(SubSeq(bytes, 5 + len, Len(bytes)))
                 IN IF rest = StorageIo THEN StorageIo
                    ELSE [ok |-> <<SubSeq(bytes, 5, 4 + len)>> \o rest.ok]

(***************************************************************************)
(* backend.rs: WalSink / WalSource of the filesystem adapter               *)
(***************************************************************************)
\* the tail append_records reports: the last listed file, else (0, 0)
TailOfDir(dir) ==
    LET last == LastWalSegment(dir)
    IN IF last # None THEN last ELSE [epoch |-> 0, seq |-> 0]

\* [dir, tail, written]: written is the tail of the file the writer ended on
FsAppendRecords(dir, records) ==
    LET st == WalFlush(WalWriteAll(WalWriterOpen(dir), records))
    IN [dir |-> st.dir,
        tail |-> TailOfDir(st.dir),
        written |-> [epoch |-> st.w.epoch, seq |-> st.w.seq]]

FsListWalSegments(dir) ==
    LET paths == list_wal_paths(dir)
    IN [i \in 1..Len(paths) |-> parse_seq_from_name(paths[i])]

FsReadWalSegment(dir, tail) ==
    LET paths == list_wal_paths(dir)
        hits == {i \in 1..Len(paths) : parse_seq_from_name(paths[i]) = tail}
    IN IF hits = {} THEN [ok |-> <<>>]
       ELSE read_records(dir[paths[CHOOSE i \in hits : \A j \in hits : i <= j]].bytes)

(***************************************************************************)
(* Inputs of the WAL behaviours.                                           *)
(***************************************************************************)
Batches == { << <<1>> >>, << <<2, 3>>, <<>> >> }

walvars == <<wal, walres, nappend, ntorn>>

engvars == <<clock, mdir, inodes, next_inode, th, locks, nops, backend, rd>>

idxvars == <<store, segs, gres, gops>>

catvars == <<newbranch>>

planvars == <<planned>>

execvars == <<bfs, ev>>

othervars == <<idxvars, catvars, planvars, execvars>>

vars == <<wal, walres, nappend, ntorn,
          clock, mdir, inodes, next_inode, th, locks, nops, backend, rd,
          store, segs, gres, gops, newbranch, planned, bfs, ev>>

Threads == {"t1", "t2"}

Key == <<"db", "main">>

IdleThread ==
    [pc |-> "idle", op |-> "none", records |-> <<>>, n |-> 0,
     w |-> None, tail |-> None, meta |-> None, tmp |-> <<>>,
     fd |-> 0, off |-> 0]

\* HashMap::new
EmptyMap == [x \in {} |-> x]

\* InMemoryGraphStore::new
NewStore ==
    [nodes |-> EmptyMap, edges |-> EmptyMap, label_index |-> EmptyMap,
     adjacency_out |-> EmptyMap, adjacency_in |-> EmptyMap,
     next_node_id |-> 1, next_edge_id |-> 1]

\* the state after Engine::open / Engine::open_fs_composite on an empty
\* data directory, with a new graph store and no MATCH clause planned
Init ==
    /\ wal = <<>>
    /\ walres = [op |-> "none"]
    /\ nappend = 0
    /\ ntorn = 0
    /\ clock = EpochStart
    /\ mdir = <<>>
    /\ inodes = <<>>
    /\ next_inode = 1
    /\ th = [p \in Threads |-> IdleThread]
    /\ locks = <<>>
    /\ nops = 0
    /\ backend \in {"fs", "composite"}
    /\ rd = [op |-> "none"]
    /\ store = NewStore
    /\ segs = EmptyMap
    /\ gres = [op |-> "none"]
    /\ gops = 0
    /\ newbranch = [op |-> "none"]
    /\ planned = [op |-> "none"]
    /\ bfs = [pc |-> "idle"]
    /\ ev = [op |-> "none"]

InitWal == Init /\ backend = "fs"

\* WalSink::append_records(records)
AppendRecordsWithin(limit) ==
    /\ nappend < limit
    /\ \E records \in Batches :
          LET r == FsAppendRecords(wal, records)
          IN /\ wal' = r.dir
             /\ walres' = [op |-> "append", records |-> records,
                           tail |-> r.tail, written |-> r.written]
    /\ nappend' = nappend + 1
    /\ UNCHANGED <<ntorn, engvars, othervars>>

AppendRecords == AppendRecordsWithin(MaxAppends)

\* WalSource::read_wal_segment(tail) with the tail append_records returned
ReadReturnedTail ==
    /\ walres.op = "append"
    /\ walres' = [op |-> "read", tail |-> walres.tail,
                  records |-> walres.records,
                  res |-> FsReadWalSegment(wal, walres.tail)]
    /\ UNCHANGED <<wal, nappend, ntorn, engvars, othervars>>

NextWal ==
    \/ AppendRecords
    \/ ReadReturnedTail

SpecWal == InitWal /\ [][NextWal]_vars

(***************************************************************************)
(* WAL behaviours with a writer that fails in the middle of a record.      *)
(***************************************************************************)
TornTails == [epoch : {0}, seq : 0..MaxTornAppends]

AppendRecordsFew == AppendRecordsWithin(MaxTornAppends)

\* write_all stops after `cut` bytes of the k-th record (an I/O error, or
\* the process dies): the call fails and the file keeps the bytes written
AppendRecordsTorn ==
    /\ nappend < MaxTornAppends
    /\ ntorn < MaxTorn
    /\ \E records \in Batches : \E k \in 1..Len(records) :
        \E cut \in 0..(3 + Len(records[k])) :
          LET st == WalWriteAll(WalWriterOpen(wal), SubSeq(records, 1, k - 1))
          IN /\ wal' = WriteBytes(st, records[k], cut).dir
             /\ walres' = [op |-> "append_failed", records |-> records]
    /\ nappend' = nappend + 1
    /\ ntorn' = ntorn + 1
    /\ UNCHANGED <<engvars, othervars>>

\* WalSource::list_wal_segments
ListWalSegments ==
    /\ walres' = [op |-> "list", segments |-> FsListWalSegments(wal)]
    /\ UNCHANGED <<wal, nappend, ntorn, engvars, othervars>>

\* WalSource::read_wal_segment(tail)
ReadWalSegment ==
    /\ \E tail \in TornTails :
          walres' = [op |-> "read", tail |-> tail, records |-> <<>>,
                    res |-> FsReadWalSegment(wal, tail)]
    /\ UNCHANGED <<wal, nappend, ntorn, engvars, othervars>>

NextTorn ==
    \/ AppendRecordsFew
    \/ AppendRecordsTorn
    \/ ListWalSegments
    \/ ReadWalSegment

SpecTorn == InitWal /\ [][NextTorn]_vars

(***************************************************************************)
(* manifest.rs                                                             *)
(***************************************************************************)
Some(x) == [some |-> x]

\* Manifest::filename: "manifest-<version_ts>.json"
ManifestFileName(ts) == ToDecimal(ts) \o <<DOT>>

\* atomic_write_file: ".<file name>.tmp-<millis>"
TmpFileName(name, millis) == <<DOT>> \o name \o <<DASH>> \o ToDecimal(millis)

\* Some(ts) or None; a name with a leading '.' has no "manifest-" prefix
parse_ts_from_filename(name) ==
    IF Len(name) >= 2 /\ name[Len(name)] = DOT
       /\ IsDigits(SubSeq(name, 1, Len(name) - 1))
    THEN Some(ParseDecimal(SubSeq(name, 1, Len(name) - 1)))
    ELSE None

ManifestNames(dir) == {n \in DOMAIN dir : parse_ts_from_filename(n) # None}

list_manifest_paths(dir) == SortNames(ManifestNames(dir))

\* serde_json::to_vec_pretty: the document, which reaches a file in two
\* write calls
Serialize(m) == <<[part |-> 1, m |-> m], [part |-> 2, m |-> m]>>

\* a byte range of a file that was never written
Hole == [part |-> 0, m |-> None]

\* serde_json::from_slice: Ok(manifest) for a whole document only
Deserialize(bytes) ==
    IF Len(bytes) = 2 /\ bytes[1].part = 1 /\ bytes[2].part = 2
       /\ bytes[1].m = bytes[2].m
    THEN [ok |-> bytes[1].m]
    ELSE StorageIo

read_manifest(dir, ino, name) == Deserialize(ino[dir[name]].bytes)

\* Ok(Some(m)), Ok(None) or StorageIo
latest_manifest(dir, ino) ==
    IF ManifestNames(dir) = {} THEN [ok |-> None]
    ELSE LET r == read_manifest(dir, ino, LastName(ManifestNames(dir)))
         IN IF r = StorageIo THEN StorageIo ELSE [ok |-> Some(r.ok)]

\* the loop without the comparison with best: the last path not after `at`
RECURSIVE PitrLast(_, _, _, _)
PitrLast(paths, i, at, best) ==
    IF i > Len(paths) THEN best
    ELSE LET ts == parse_ts_from_filename(paths[i])
         IN IF ts # None /\ ts.some <= at
            THEN PitrLast(paths, i + 1, at, [ts |-> ts.some, path |-> paths[i]])
            ELSE PitrLast(paths, i + 1, at, best)

\* the loop of pitr_manifest over paths[i..]: best is None or [ts, path]
RECURSIVE PitrBest(_, _, _, _)
PitrBest(paths, i, at, best) ==
    IF i > Len(paths) THEN best
    ELSE LET ts == parse_ts_from_filename(paths[i])
         IN IF ts # None /\ ts.some <= at
               /\ ~(best # None /\ best.ts >= ts.some)
            THEN PitrBest(paths, i + 1, at, [ts |-> ts.some, path |-> paths[i]])
            ELSE PitrBest(paths, i + 1, at, best)

pitr_manifest(dir, ino, at) ==
    LET best == PitrBest(list_manifest_paths(dir), 1, at, None)
    IN IF best = None THEN [ok |-> None]
       ELSE LET r == read_manifest(dir, ino, best.path)
            IN IF r = StorageIo THEN StorageIo ELSE [ok |-> Some(r.ok)]

(***************************************************************************)
(* backend.rs: manifests of the filesystem adapter                         *)
(***************************************************************************)
to_meta(m) ==
    [branch |-> m.branch, version_ts |-> m.version_ts,
     segments |-> [i \in 1..Len(m.segments) |-> m.segments[i].id],
     wal_tail |-> m.wal_tail]

from_meta(meta) ==
    [branch |-> meta.branch, version_ts |-> meta.version_ts,
     segments |-> [i \in 1..Len(meta.segments) |->
                      [id |-> meta.segments[i], range |-> None]],
     wal_tail |-> meta.wal_tail]

\* the manifest FsBackend::snapshot builds from the latest one
FsSnapshotManifest(base, now_ms) ==
    [branch |-> Key[2], version_ts |-> now_ms,
     segments |-> IF base # None THEN base.some.segments ELSE <<>>,
     wal_tail |-> IF base # None THEN base.some.wal_tail ELSE None]

RECURSIVE ReadAll(_, _, _, _)
ReadAll(dir, ino, paths, i) ==
    IF i > Len(paths) THEN [ok |-> <<>>]
    ELSE LET m == read_manifest(dir, ino, paths[i])
         IN IF m = StorageIo THEN StorageIo
            ELSE LET rest == ReadAll(dir, ino, paths, i + 1)
                 IN IF rest = StorageIo THEN StorageIo
                    ELSE [ok |-> <<m.ok.version_ts>> \o rest.ok]

list_snapshot_timestamps(dir, ino) ==
    ReadAll(dir, ino, list_manifest_paths(dir), 1)

latest_manifest_meta(dir, ino) ==
    LET r == latest_manifest(dir, ino)
    IN IF r = StorageIo \/ r.ok = None THEN r
       ELSE [ok |-> Some(to_meta(r.ok.some))]

pitr_manifest_meta(dir, ino, at) ==
    LET r == pitr_manifest(dir, ino, at)
    IN IF r = StorageIo \/ r.ok = None THEN r
       ELSE [ok |-> Some(to_meta(r.ok.some))]

(***************************************************************************)
(* casys_core: CompositeBackend                                            *)
(***************************************************************************)
\* the ManifestMeta CompositeBackend::snapshot / commit_tx builds; tail is
\* Some(tail) from the WAL sink, or None (snapshot)
CompositeMeta(tail, prev, now_ms) ==
    [branch |-> Key[2], version_ts |-> now_ms,
     segments |-> IF prev # None THEN prev.some.segments ELSE <<>>,
     wal_tail |-> IF tail # None THEN tail
                  ELSE IF prev # None THEN prev.some.wal_tail ELSE None]

(***************************************************************************)
(* Engine calls, one filesystem or lock operation per step.                *)
(***************************************************************************)
EngineBatches == { << <<2, 3>>, <<>> >> }

\* Engine::branch_writer_lock: map.entry(key).or_insert_with(new mutex)
branch_writer_lock(map, key) ==
    IF key \in DOMAIN map THEN map ELSE (key :> "free") @@ map

\* let _ = lock.lock(): the guard is dropped at once
AcquireAndDropGuard(map, key, p) == map

\* let _guard = lock.lock(): the guard owns the mutex until the call returns
AcquireGuard(map, key, p) == [map EXCEPT ![key] = p]

\* dropping _guard when Engine::commit_tx returns
DropGuard(map, p) ==
    [k \in DOMAIN map |-> IF map[k] = p THEN "free" ELSE map[k]]

\* the thread's call returns (Ok or Err): its locals and its guard are dropped
Return(p) ==
    /\ th' = [th EXCEPT ![p] = IdleThread]
    /\ locks' = DropGuard(locks, p)

Goto(p, pc) == th' = [th EXCEPT ![p].pc = pc]

WalKeep == UNCHANGED <<wal, walres, nappend, ntorn>>

\* Engine::snapshot(branch)
CallSnapshot(p) ==
    /\ th[p].pc = "idle"
    /\ nops < MaxOps
    /\ nops' = nops + 1
    /\ th' = [th EXCEPT ![p].pc = "snap_read", ![p].op = "snapshot"]
    /\ WalKeep
    /\ UNCHANGED othervars
    /\ UNCHANGED <<clock, mdir, inodes, next_inode, locks, backend, rd>>

\* Engine::commit_tx(branch, records): look the branch's mutex up
CallCommit(p) ==
    /\ th[p].pc = "idle"
    /\ nops < MaxOps
    /\ nops' = nops + 1
    /\ \E records \in EngineBatches :
          th' = [th EXCEPT ![p].pc = "lock", ![p].op = "commit",
                           ![p].records = records]
    /\ locks' = branch_writer_lock(locks, Key)
    /\ WalKeep
    /\ UNCHANGED othervars
    /\ UNCHANGED <<clock, mdir, inodes, next_inode, backend, rd>>

\* lock.lock(): blocks while another guard is alive
LockStep(p) ==
    /\ th[p].pc = "lock"
    /\ locks[Key] = "free"
    /\ locks' = AcquireGuard(locks, Key, p)
    /\ Goto(p, "wal_open")
    /\ WalKeep
    /\ UNCHANGED othervars
    /\ UNCHANGED <<clock, mdir, inodes, next_inode, nops, backend, rd>>

\* WalWriter::open
WalOpenStep(p) ==
    /\ th[p].pc = "wal_open"
    /\ LET st == WalWriterOpen(wal)
       IN /\ wal' = st.dir
          /\ th' = [th EXCEPT ![p].pc = "wal_write", ![p].w = st.w]
    /\ UNCHANGED <<walres, nappend, ntorn, othervars>>
    /\ UNCHANGED <<clock, mdir, inodes, next_inode, locks, nops, backend, rd>>

\* w.write_record(rec) for the next record
WalWriteStep(p) ==
    /\ th[p].pc = "wal_write"
    /\ th[p].n < Len(th[p].records)
    /\ LET st == WalWriteRecord([w |-> th[p].w, dir |-> wal],
                                th[p].records[th[p].n + 1])
       IN /\ wal' = st.dir
          /\ th' = [th EXCEPT ![p].w = st.w, ![p].n = th[p].n + 1]
    /\ UNCHANGED <<walres, nappend, ntorn, othervars>>
    /\ UNCHANGED <<clock, mdir, inodes, next_inode, locks, nops, backend, rd>>

\* w.flush() after the last record
WalFlushStep(p) ==
    /\ th[p].pc = "wal_write"
    /\ th[p].n = Len(th[p].records)
    /\ wal' = WalFlush([w |-> th[p].w, dir |-> wal]).dir
    /\ Goto(p, IF backend = "fs" THEN "snap_read" ELSE "wal_tail")
    /\ UNCHANGED <<walres, nappend, ntorn, othervars>>
    /\ UNCHANGED <<clock, mdir, inodes, next_inode, locks, nops, backend, rd>>

\* FsBackend::append_records: the tail it returns to CompositeBackend
WalTailStep(p) ==
    /\ th[p].pc = "wal_tail"
    /\ th' = [th EXCEPT ![p].pc = "snap_read", ![p].tail = Some(TailOfDir(wal))]
    /\ WalKeep
    /\ UNCHANGED othervars
    /\ UNCHANGED <<clock, mdir, inodes, next_inode, locks, nops, backend, rd>>

\* FsBackend::snapshot / CompositeBackend::snapshot / commit_tx: read the
\* latest manifest and the clock, build the manifest to write
SnapReadStep(p) ==
    /\ th[p].pc = "snap_read"
    /\ LET fsbase == latest_manifest(mdir, inodes)
           prev == latest_manifest_meta(mdir, inodes)
       IN IF fsbase = StorageIo
          THEN Return(p)
          ELSE /\ th' = [th EXCEPT
                    ![p].pc = "aw_create",
                    ![p].meta =
                        IF backend = "fs"
                        THEN FsSnapshotManifest(fsbase.ok, clock)
                        ELSE from_meta(CompositeMeta(th[p].tail, prev.ok, clock))]
               /\ UNCHANGED locks
    /\ WalKeep
    /\ UNCHANGED othervars
    /\ UNCHANGED <<clock, mdir, inodes, next_inode, nops, backend, rd>>

\* atomic_write_file: File::create(tmp_path) creates the file or truncates it
AwCreateStep(p) ==
    /\ th[p].pc = "aw_create"
    /\ LET tmp == TmpFileName(ManifestFileName(th[p].meta.version_ts), clock)
           fd == IF tmp \in DOMAIN mdir THEN mdir[tmp] ELSE next_inode
       IN /\ mdir' = IF tmp \in DOMAIN mdir THEN mdir ELSE (tmp :> fd) @@ mdir
          /\ inodes' = [i \in (DOMAIN inodes) \cup {fd} |->
                           IF i = fd THEN EmptyFile ELSE inodes[i]]
          /\ next_inode' = IF tmp \in DOMAIN mdir THEN next_inode
                           ELSE next_inode + 1
          /\ th' = [th EXCEPT ![p].pc = "aw_write", ![p].tmp = tmp,
                              ![p].fd = fd, ![p].off = 0]
    /\ WalKeep
    /\ UNCHANGED othervars
    /\ UNCHANGED <<clock, locks, nops, backend, rd>>

\* the file's bytes after a write of one chunk at offset off
WriteAt(bytes, off, chunk) ==
    [i \in 1..(IF off + 1 > Len(bytes) THEN off + 1 ELSE Len(bytes)) |->
        IF i = off + 1 THEN chunk
        ELSE IF i <= Len(bytes) THEN bytes[i] ELSE Hole]

\* f.write_all(bytes): one write call
AwWriteStep(p) ==
    /\ th[p].pc = "aw_write"
    /\ th[p].off < Len(Serialize(th[p].meta))
    /\ inodes' = [inodes EXCEPT ![th[p].fd].bytes =
                     WriteAt(@, th[p].off, Serialize(th[p].meta)[th[p].off + 1])]
    /\ th' = [th EXCEPT ![p].off = th[p].off + 1]
    /\ WalKeep
    /\ UNCHANGED othervars
    /\ UNCHANGED <<clock, mdir, next_inode, locks, nops, backend, rd>>

\* f.sync_all()
AwSyncStep(p) ==
    /\ th[p].pc = "aw_write"
    /\ th[p].off = Len(Serialize(th[p].meta))
    /\ inodes' = [inodes EXCEPT ![th[p].fd].synced = Len(inodes[th[p].fd].bytes)]
    /\ Goto(p, "aw_rename")
    /\ WalKeep
    /\ UNCHANGED othervars
    /\ UNCHANGED <<clock, mdir, next_inode, locks, nops, backend, rd>>

\* the directory after fs::rename(from, to): from must exist
Rename(dir, from, to) ==
    [n \in ((DOMAIN dir) \ {from}) \cup {to} |->
        IF n = to THEN dir[from] ELSE dir[n]]

\* the inodes some name still refers to
Linked(dir, ino) ==
    [i \in {dir[n] : n \in DOMAIN dir} |-> ino[i]]

\* fs::rename(tmp_path, path): fails when the temporary file is gone
AwRenameStep(p) ==
    /\ th[p].pc = "aw_rename"
    /\ IF th[p].tmp \in DOMAIN mdir
       THEN /\ mdir' = Rename(mdir, th[p].tmp,
                              ManifestFileName(th[p].meta.version_ts))
            /\ inodes' = Linked(mdir', inodes)
            /\ Goto(p, "aw_fsyncdir")
            /\ UNCHANGED locks
       ELSE /\ Return(p)
            /\ UNCHANGED <<mdir, inodes>>
    /\ WalKeep
    /\ UNCHANGED othervars
    /\ UNCHANGED <<clock, next_inode, nops, backend, rd>>

\* fsync_dir(parent), and the call returns Ok(now_ms)
AwFsyncDirStep(p) ==
    /\ th[p].pc = "aw_fsyncdir"
    /\ Return(p)
    /\ WalKeep
    /\ UNCHANGED othervars
    /\ UNCHANGED <<clock, mdir, inodes, next_inode, nops, backend, rd>>

IoPcs == {"wal_open", "wal_write", "snap_read", "aw_create", "aw_write",
          "aw_rename", "aw_fsyncdir"}

\* the filesystem call the thread is about to make fails: `?` returns the
\* error from the Engine call
IoFail(p) ==
    /\ th[p].pc \in IoPcs
    /\ Return(p)
    /\ WalKeep
    /\ UNCHANGED othervars
    /\ UNCHANGED <<clock, mdir, inodes, next_inode, nops, backend, rd>>

\* a millisecond passes
Tick ==
    /\ clock < EpochStart + MaxTicks
    /\ clock' = clock + 1
    /\ WalKeep
    /\ UNCHANGED othervars
    /\ UNCHANGED <<mdir, inodes, next_inode, th, locks, nops, backend, rd>>

ThreadStep(p) ==
    \/ CallSnapshot(p)
    \/ CallCommit(p)
    \/ LockStep(p)
    \/ WalOpenStep(p)
    \/ WalWriteStep(p)
    \/ WalFlushStep(p)
    \/ WalTailStep(p)
    \/ SnapReadStep(p)
    \/ AwCreateStep(p)
    \/ AwWriteStep(p)
    \/ AwSyncStep(p)
    \/ AwRenameStep(p)
    \/ AwFsyncDirStep(p)

PitrTimes == (EpochStart - 1)..(EpochStart + MaxTicks + 1)

\* a reader calls list_snapshot_timestamps(branch)
ListSnapshotTimestamps ==
    /\ rd' = [op |-> "list", res |-> list_snapshot_timestamps(mdir, inodes)]
    /\ WalKeep
    /\ UNCHANGED othervars
    /\ UNCHANGED <<clock, mdir, inodes, next_inode, th, locks, nops, backend>>

\* a reader calls latest_manifest_meta(branch)
LatestManifest ==
    /\ rd' = [op |-> "latest", res |-> latest_manifest_meta(mdir, inodes)]
    /\ WalKeep
    /\ UNCHANGED othervars
    /\ UNCHANGED <<clock, mdir, inodes, next_inode, th, locks, nops, backend>>

\* a reader calls pitr_manifest_meta(branch, at)
PitrManifest ==
    /\ \E at \in PitrTimes :
          rd' = [op |-> "pitr", at |-> at,
                 res |-> pitr_manifest_meta(mdir, inodes, at)]
    /\ WalKeep
    /\ UNCHANGED othervars
    /\ UNCHANGED <<clock, mdir, inodes, next_inode, th, locks, nops, backend>>

Next ==
    \/ Tick
    \/ ThreadStep("t1")
    \/ ListSnapshotTimestamps
    \/ LatestManifest
    \/ PitrManifest

\* one thread calls the Engine and every filesystem call succeeds; a reader
\* reads the branch at any moment
Spec == Init /\ [][Next]_vars

NextConc ==
    \/ Tick
    \/ \E p \in Threads : ThreadStep(p)
    \/ \E p \in Threads : IoFail(p)

\* two threads share one Engine, and any filesystem call may fail
SpecConc == Init /\ [][NextConc]_vars

(***************************************************************************)
(* backend.rs: create_branch                                               *)
(***************************************************************************)
\* the name of the branch create_branch creates
NewBranchName == "new"

\* FsBackend::create_branch(from, new, at) with the directory of `from` and
\* the empty directory of `new`: Ok(the directory of `new`) or StorageIo
create_branch(dir, ino, at, now_ms) ==
    LET base == IF at # None THEN pitr_manifest(dir, ino, at.some)
                ELSE latest_manifest(dir, ino)
    IN IF base = StorageIo THEN StorageIo
       ELSE [ok |-> ManifestFileName(now_ms) :>
                [branch |-> NewBranchName, version_ts |-> now_ms,
                 segments |-> IF base.ok # None THEN base.ok.some.segments
                              ELSE <<>>,
                 wal_tail |-> IF base.ok # None THEN base.ok.some.wal_tail
                              ELSE None]]

\* a caller branches off the branch the engine writes, at any moment
CreateBranch ==
    /\ \E at \in {None} \cup {Some(t) : t \in PitrTimes} :
          newbranch' = [op |-> "create_branch", at |-> at,
                        res |-> create_branch(mdir, inodes, at, clock)]
    /\ WalKeep
    /\ UNCHANGED <<idxvars, planvars, execvars>>
    /\ UNCHANGED <<clock, mdir, inodes, next_inode, th, locks, nops, backend,
                   rd>>

NextBranch ==
    \/ Tick
    \/ ThreadStep("t1")
    \/ CreateBranch

\* one thread calls the Engine while branches are created from its branch
SpecBranch == Init /\ [][NextBranch]_vars

(***************************************************************************)
(* casys_engine index: the in-memory graph store.  NodeId and EdgeId are   *)
(* u64 in the code; here they are IdBits wide, so that the greatest id and *)
(* the overflow of `id + 1` can be reached.                                *)
(***************************************************************************)
IdModulus == 2 ^ IdBits

U64Max == IdModulus - 1

Panic == [panic |-> "attempt to add with overflow"]

\* HashMap::insert(k, v)
Put(f, k, v) == [x \in (DOMAIN f) \cup {k} |-> IF x = k THEN v ELSE f[x]]

\* map.entry(k).or_insert_with(Vec::new).push(id)
Push(idx, k, id) ==
    Put(idx, k, (IF k \in DOMAIN idx THEN idx[k] ELSE <<>>) \o <<id>>)

\* for label in labels { label_index.entry(label)...push(id) }
RECURSIVE PushLabels(_, _, _, _)
PushLabels(idx, labels, i, id) ==
    IF i > Len(labels) THEN idx
    ELSE PushLabels(Push(idx, labels[i], id), labels, i + 1, id)

\* x + 1 on a u64 in a build without overflow checks
Inc(x) == (x + 1) % IdModulus

\* GraphWriteStore::add_node; oc: the build has overflow checks
add_node(s, labels, properties, oc) ==
    LET id == s.next_node_id
    IN IF id = U64Max /\ oc
       THEN [store |-> s, res |-> Panic]
       ELSE [store |->
                [s EXCEPT
                    !.next_node_id = Inc(id),
                    !.nodes = Put(@, id, [id |-> id, labels |-> labels,
                                          properties |-> properties]),
                    !.label_index = PushLabels(@, labels, 1, id)],
             res |-> [ok |-> id]]

\* GraphWriteStore::add_edge
add_edge(s, from, to, edge_type, properties, oc) ==
    LET id == s.next_edge_id
    IN IF id = U64Max /\ oc
       THEN [store |-> s, res |-> Panic]
       ELSE [store |->
                [s EXCEPT
                    !.next_edge_id = Inc(id),
                    !.edges = Put(@, id, [id |-> id, from_node |-> from,
                                          to_node |-> to,
                                          edge_type |-> edge_type,
                                          properties |-> properties]),
                    !.adjacency_out = Push(@, from, id),
                    !.adjacency_in = Push(@, to, id)],
             res |-> [ok |-> id]]

\* insert a node that carries its id, as replay_wal and deserialize_nodes do
InsertNode(s, n, oc) ==
    LET t == [s EXCEPT
                 !.nodes = Put(@, n.id, [id |-> n.id, labels |-> n.labels,
                                         properties |-> n.properties]),
                 !.label_index = PushLabels(@, n.labels, 1, n.id)]
    IN IF n.id >= s.next_node_id
       THEN IF n.id = U64Max /\ oc
            THEN [store |-> t, res |-> Panic]
            ELSE [store |-> [t EXCEPT !.next_node_id = Inc(n.id)],
                  res |-> [ok |-> TRUE]]
       ELSE [store |-> t, res |-> [ok |-> TRUE]]

\* insert an edge that carries its id, as replay_wal and deserialize_edges do
InsertEdge(s, e, oc) ==
    LET t == [s EXCEPT
                 !.edges = Put(@, e.id, [id |-> e.id, from_node |-> e.from_node,
                                         to_node |-> e.to_node,
                                         edge_type |-> e.edge_type,
                                         properties |-> e.properties]),
                 !.adjacency_out = Push(@, e.from_node, e.id),
                 !.adjacency_in = Push(@, e.to_node, e.id)]
    IN IF e.id >= s.next_edge_id
       THEN IF e.id = U64Max /\ oc
            THEN [store |-> t, res |-> Panic]
            ELSE [store |-> [t EXCEPT !.next_edge_id = Inc(e.id)],
                  res |-> [ok |-> TRUE]]
       ELSE [store |-> t, res |-> [ok |-> TRUE]]

\* InMemoryGraphStore::replay_wal(records[i..])
RECURSIVE replay_wal(_, _, _, _)
replay_wal(s, records, i, oc) ==
    IF i > Len(records) THEN [store |-> s, res |-> [ok |-> TRUE]]
    ELSE LET r == IF records[i].type = "add_node"
                  THEN InsertNode(s, records[i], oc)
                  ELSE InsertEdge(s, records[i], oc)
         IN IF r.res = Panic THEN r
            ELSE replay_wal(r.store, records, i + 1, oc)

\* the values of the Some elements of ys, in order (Iterator::filter_map)
Somes(ys) ==
    LET kept == SelectSeq(ys, LAMBDA y : y # None)
    IN [i \in 1..Len(kept) |-> kept[i].some]

\* GraphReadStore::get_node
get_node(s, id) == IF id \in DOMAIN s.nodes THEN Some(s.nodes[id]) ELSE None

\* GraphReadStore::scan_by_label
scan_by_label(s, label) ==
    IF label \in DOMAIN s.label_index
    THEN Somes([i \in 1..Len(s.label_index[label]) |->
                   get_node(s, s.label_index[label][i])])
    ELSE <<>>

\* one turn of the loop of get_neighbors / get_neighbors_incoming: far is
\* the field of the edge that names the node at the other end; edge_type is
\* None or Some(type)
NeighborOf(s, edge_id, edge_type, far) ==
    IF edge_id \notin DOMAIN s.edges THEN None
    ELSE LET edge == s.edges[edge_id]
         IN IF edge_type # None /\ edge.edge_type # edge_type.some THEN None
            ELSE IF edge[far] \in DOMAIN s.nodes
                 THEN Some(<<edge, s.nodes[edge[far]]>>)
                 ELSE None

\* the elements of a result list
AsSet(xs) == {xs[i] : i \in DOMAIN xs}

\* GraphReadStore::get_neighbors
get_neighbors(s, node_id, edge_type) ==
    IF node_id \in DOMAIN s.adjacency_out
    THEN Somes([i \in 1..Len(s.adjacency_out[node_id]) |->
                   NeighborOf(s, s.adjacency_out[node_id][i], edge_type,
                              "to_node")])
    ELSE <<>>

\* GraphReadStore::get_neighbors_incoming
get_neighbors_incoming(s, node_id, edge_type) ==
    IF node_id \in DOMAIN s.adjacency_in
    THEN Somes([i \in 1..Len(s.adjacency_in[node_id]) |->
                   NeighborOf(s, s.adjacency_in[node_id][i], edge_type,
                              "from_node")])
    ELSE <<>>

(***************************************************************************)
(* persistence.rs: flush and load through a SegmentStore                   *)
(***************************************************************************)
\* ValueExt::to_json
to_json(v) ==
    CASE v.t = "String" -> [j |-> "string", s |-> v.s]
      [] v.t = "Int"    -> [j |-> "number", n |-> v.i]
      [] v.t = "NodeId" -> [j |-> "number", n |-> v.id]
      [] v.t = "Null"   -> [j |-> "null"]

\* ValueExt::from_json: a number that fits i64 is an Int
from_json(j) ==
    CASE j.j = "string" -> Some([t |-> "String", s |-> j.s])
      [] j.j = "number" -> Some([t |-> "Int", i |-> j.n])
      [] j.j = "null"   -> Some([t |-> "Null"])

serialize_props(props) == [k \in DOMAIN props |-> to_json(props[k])]

deserialize_props(json) ==
    [k \in {x \in DOMAIN json : from_json(json[x]) # None} |->
        from_json(json[k]).some]

\* the orders HashMap::values() may visit the entries of table in
Orders(table) ==
    {o \in [1..Cardinality(DOMAIN table) -> DOMAIN table] :
        \A i, j \in DOMAIN o : o[i] = o[j] => i = j}

\* GraphReadStore::scan_all: self.nodes.values().cloned().collect(), with
\* the HashMap visited in this order
scan_all(s, order) == [i \in DOMAIN order |-> s.nodes[order[i]]]

\* serialize_nodes, with the nodes visited in this order
serialize_nodes(s, order) ==
    [count |-> Len(order),
     nodes |-> [i \in 1..Len(order) |->
                  [id |-> s.nodes[order[i]].id,
                   labels |-> s.nodes[order[i]].labels,
                   properties |-> serialize_props(s.nodes[order[i]].properties)]]]

\* serialize_edges, with the edges visited in this order
serialize_edges(s, order) ==
    [count |-> Len(order),
     edges |-> [i \in 1..Len(order) |->
                  [id |-> s.edges[order[i]].id,
                   from |-> s.edges[order[i]].from_node,
                   to |-> s.edges[order[i]].to_node,
                   type |-> s.edges[order[i]].edge_type,
                   properties |-> serialize_props(s.edges[order[i]].properties)]]]

\* deserialize_nodes over json["nodes"][i..]
RECURSIVE deserialize_nodes(_, _, _, _)
deserialize_nodes(s, arr, i, oc) ==
    IF i > Len(arr) THEN [store |-> s, res |-> [ok |-> TRUE]]
    ELSE LET r == InsertNode(s, [id |-> arr[i].id, labels |-> arr[i].labels,
                                 properties |->
                                     deserialize_props(arr[i].properties)], oc)
         IN IF r.res = Panic THEN r
            ELSE deserialize_nodes(r.store, arr, i + 1, oc)

\* deserialize_edges over json["edges"][i..]
RECURSIVE deserialize_edges(_, _, _, _)
deserialize_edges(s, arr, i, oc) ==
    IF i > Len(arr) THEN [store |-> s, res |-> [ok |-> TRUE]]
    ELSE LET r == InsertEdge(s, [id |-> arr[i].id, from_node |-> arr[i].from,
                                 to_node |-> arr[i].to,
                                 edge_type |-> arr[i].type,
                                 properties |->
                                     deserialize_props(arr[i].properties)], oc)
         IN IF r.res = Panic THEN r
            ELSE deserialize_edges(r.store, arr, i + 1, oc)

NotFound == [err |-> "NotFound"]

InvalidArgument == [err |-> "InvalidArgument"]

\* SegmentStore::write_segment
write_segment(ss, segment_id, data, node_count, edge_count) ==
    Put(ss, segment_id, [data |-> data, node_count |-> node_count,
                         edge_count |-> edge_count])

\* SegmentStore::read_segment of the filesystem adapter ("fs":
\* Segment::read_from_path) and of the tests' MockSegmentStore ("mock")
read_segment(kind, ss, segment_id) ==
    IF segment_id \in DOMAIN ss THEN [ok |-> ss[segment_id]]
    ELSE IF kind = "fs" THEN StorageIo ELSE NotFound

\* InMemoryGraphStore::flush
flush(s, ss, norder, eorder) ==
    write_segment(
        write_segment(ss, "nodes", serialize_nodes(s, norder),
                      Cardinality(DOMAIN s.nodes), 0),
        "edges", serialize_edges(s, eorder), 0, Cardinality(DOMAIN s.edges))

\* InMemoryGraphStore::load: [store, res] with res Ok, an error or Panic
load(kind, ss, oc) ==
    LET rn == read_segment(kind, ss, "nodes")
        g1 == IF rn = NotFound THEN [store |-> NewStore, res |-> [ok |-> TRUE]]
              ELSE deserialize_nodes(NewStore, rn.ok.data.nodes, 1, oc)
        re == read_segment(kind, ss, "edges")
    IN IF rn = StorageIo THEN [store |-> NewStore, res |-> StorageIo]
       ELSE IF g1.res = Panic THEN g1
       ELSE IF re = StorageIo THEN [store |-> g1.store, res |-> StorageIo]
       ELSE IF re = NotFound THEN g1
       ELSE deserialize_edges(g1.store, re.ok.data.edges, 1, oc)

(***************************************************************************)
(* Calls on one graph store and one segment store.                         *)
(***************************************************************************)
Labels == {"A", "B"}

LabelLists == {<<>>, <<"A">>, <<"A", "B">>}

PropMaps ==
    {EmptyMap, "k" :> [t |-> "String", s |-> "a"],
     "k" :> [t |-> "NodeId", id |-> 1]}

NodeRefs == 1..2

EdgeTypes == {"T", "U"}

ReplayNode(id, labels) ==
    [type |-> "add_node", id |-> id, labels |-> labels,
     properties |-> EmptyMap]

ReplayEdge(id, from, to) ==
    [type |-> "add_edge", id |-> id, from_node |-> from, to_node |-> to,
     edge_type |-> "T", properties |-> EmptyMap]

\* the record batches handed to replay_wal
ReplayBatches ==
    {<<ReplayNode(1, <<"A">>)>>, <<ReplayNode(U64Max, <<"B">>)>>,
     <<ReplayEdge(1, 1, 2)>>,
     <<ReplayNode(1, <<"B">>), ReplayNode(2, <<"A">>), ReplayEdge(1, 2, 1)>>}

GraphKeep == UNCHANGED <<walvars, engvars, catvars, planvars, execvars>>

\* store.add_node(labels, properties)
AddNode ==
    /\ gops < MaxGraphOps
    /\ gops' = gops + 1
    /\ \E labels \in LabelLists, properties \in PropMaps, oc \in BOOLEAN :
          LET r == add_node(store, labels, properties, oc)
          IN /\ store' = r.store
             /\ gres' = [op |-> "add_node", labels |-> labels,
                         properties |-> properties, res |-> r.res]
    /\ UNCHANGED segs
    /\ GraphKeep

\* store.add_edge(from, to, edge_type, {})
AddEdge ==
    /\ gops < MaxGraphOps
    /\ gops' = gops + 1
    /\ \E from \in NodeRefs, to \in NodeRefs, edge_type \in EdgeTypes,
          oc \in BOOLEAN :
          LET r == add_edge(store, from, to, edge_type, EmptyMap, oc)
          IN /\ store' = r.store
             /\ gres' = [op |-> "add_edge", from |-> from, to |-> to,
                         res |-> r.res]
    /\ UNCHANGED segs
    /\ GraphKeep

\* store.replay_wal(records); a panic leaves the store as far as it got
ReplayWal ==
    /\ gops < MaxGraphOps
    /\ gops' = gops + 1
    /\ \E records \in ReplayBatches, oc \in BOOLEAN :
          LET r == replay_wal(store, records, 1, oc)
          IN /\ store' = r.store
             /\ gres' = [op |-> "replay_wal", res |-> r.res]
    /\ UNCHANGED segs
    /\ GraphKeep

\* store.flush(segment store)
Flush ==
    /\ gops < MaxGraphOps
    /\ gops' = gops + 1
    /\ \E norder \in Orders(store.nodes), eorder \in Orders(store.edges) :
          segs' = flush(store, segs, norder, eorder)
    /\ gres' = [op |-> "flush"]
    /\ UNCHANGED store
    /\ GraphKeep

\* store = InMemoryGraphStore::load(segment store)?, through the filesystem
\* adapter or through the tests' MockSegmentStore
Load ==
    /\ gops < MaxGraphOps
    /\ gops' = gops + 1
    /\ \E kind \in {"fs", "mock"}, oc \in BOOLEAN :
          LET r == load(kind, segs, oc)
          IN /\ store' = IF r.res = [ok |-> TRUE] THEN r.store ELSE store
             /\ gres' = [op |-> "load", kind |-> kind, res |-> r.res]
    /\ UNCHANGED segs
    /\ GraphKeep

NextGraph == AddNode \/ AddEdge \/ ReplayWal \/ Flush \/ Load

\* any sequence of add_node, add_edge, replay_wal, flush and load
SpecGraph == Init /\ [][NextGraph]_vars

\* store.scan_all()
ScanAll ==
    /\ gops < MaxGraphOps
    /\ gops' = gops + 1
    /\ \E order \in Orders(store.nodes) :
          gres' = [op |-> "scan_all", res |-> scan_all(store, order)]
    /\ UNCHANGED <<store, segs>>
    /\ GraphKeep

NextScan == AddNode \/ AddEdge \/ ScanAll

\* stores built by add_node and add_edge, and scanned
SpecScan == Init /\ [][NextScan]_vars

NextRoundTrip == AddNode \/ AddEdge \/ Flush \/ Load

\* stores built by add_node and add_edge, flushed and loaded
SpecRoundTrip == Init /\ [][NextRoundTrip]_vars

(***************************************************************************)
(* exec/parser.rs: the patterns of a MATCH clause                          *)
(***************************************************************************)
\* parse_node_pattern: variable is None or Some(name), labels holds at most
\* one label, properties maps keys to literals
NodePattern(variable, labels, properties) ==
    [variable |-> variable, labels |-> labels, properties |-> properties]

\* parse_edge_pattern for "-->" between two node patterns: no variable, no
\* type, no depth
EdgePattern(from_node, to_node) ==
    [variable |-> None, edge_type |-> None, direction |-> "Right",
     properties |-> EmptyMap, from_node |-> from_node, to_node |-> to_node,
     depth |-> None]

IsNode(pat) == "node" \in DOMAIN pat

IsEdge(pat) == "edge" \in DOMAIN pat

\* parse_patterns_match on the node patterns nodes[j..] of the text, where
\* commas holds the j with a comma after node j (an edge otherwise): the
\* first node of every chain is a Pattern::Node, every later node of a chain
\* is only the to_node of a Pattern::Edge
RECURSIVE parse_patterns_match(_, _, _)
parse_patterns_match(nodes, commas, j) ==
    IF j >= Len(nodes) THEN <<>>
    ELSE (IF j \in commas
          THEN <<[node |-> nodes[j + 1]]>>
          ELSE <<[edge |-> EdgePattern(nodes[j], nodes[j + 1])]>>)
         \o parse_patterns_match(nodes, commas, j + 1)

\* Parser::parse_match
parse_match(nodes, commas) ==
    <<[node |-> nodes[1]]>> \o parse_patterns_match(nodes, commas, 1)

(***************************************************************************)
(* exec/planner.rs: Planner::plan_match                                    *)
(***************************************************************************)
LabelScan(variable, label) ==
    [kind |-> "LabelScan", variable |-> variable, label |-> label]

FullScan(variable) == [kind |-> "FullScan", variable |-> variable]

Filter(input, predicate) ==
    [kind |-> "Filter", input |-> input, predicate |-> predicate]

Expand(input, from_var, to_var, edge) ==
    [kind |-> "Expand", input |-> input, from_var |-> from_var,
     edge_var |-> edge.variable, to_var |-> to_var,
     edge_type |-> edge.edge_type, direction |-> edge.direction,
     depth |-> edge.depth]

CartesianProduct(left, right) ==
    [kind |-> "CartesianProduct", left |-> left, right |-> right]

\* Expr::BinaryOp(Expr::Property(var, k), BinOp::Eq, Expr::Literal(v))
PropertyEq(var, k, v) == [e |-> "Eq", var |-> var, prop |-> k, lit |-> v]

\* Expr::BinaryOp(l, BinOp::And, r)
And(l, r) == [e |-> "And", l |-> l, r |-> r]

\* "AND of var.prop == literal" over the keys still to visit; keys is not
\* empty, and the HashMap's iteration order is some order of the keys
RECURSIVE PropsPredicate(_, _, _)
PropsPredicate(var, properties, keys) ==
    LET k == CHOOSE x \in keys : TRUE
        eq == PropertyEq(var, k, properties[k])
    IN IF keys = {k} THEN eq
       ELSE And(PropsPredicate(var, properties, keys \ {k}), eq)

InlinePredicate(var, properties) ==
    PropsPredicate(var, properties, DOMAIN properties)

\* predicate_opt = Some(match predicate_opt.take() { Some(prev) => prev AND
\* pred, None => pred })
Combine(predicate_opt, pred) ==
    IF predicate_opt = None THEN Some(pred)
    ELSE Some(And(predicate_opt.some, pred))

\* the variables that appear as the to_node of an edge pattern
to_node_vars(patterns) ==
    {patterns[idx].edge.to_node.variable.some :
        idx \in {x \in DOMAIN patterns :
                    /\ IsEdge(patterns[x])
                    /\ patterns[x].edge.to_node.variable # None}}
    \cup
    {patterns[idx + 1].node.variable.some :
        idx \in {x \in DOMAIN patterns :
                    /\ IsEdge(patterns[x])
                    /\ patterns[x].edge.to_node.variable = None
                    /\ x + 1 <= Len(patterns)
                    /\ IsNode(patterns[x + 1])
                    /\ patterns[x + 1].node.variable # None}}

\* a planner that never finds a variable bound
NeverBound(bound_vars, var) == FALSE

\* bound_vars.contains(var)
IsBound(bound_vars, var) == var \in bound_vars

\* the scan of a node pattern: by its first label, or a full scan
BaseScan(var, node) ==
    IF node.labels # <<>> THEN LabelScan(var, node.labels[1])
    ELSE FullScan(var)

\* the state of the loop of plan_match; steps records plan_opt after every
\* pattern, err is None or the error the loop returned
PlanState(plan_opt, bound_vars, steps, err) ==
    [plan_opt |-> plan_opt, bound_vars |-> bound_vars, steps |-> steps,
     err |-> err]

Continue(st, plan_opt, bound_vars) ==
    PlanState(plan_opt, bound_vars, Append(st.steps, plan_opt), None)

Fail(st) == PlanState(st.plan_opt, st.bound_vars, st.steps, InvalidArgument)

\* the arm Pattern::Node of the loop, for patterns[i] (i counts from 1)
PlanNodePattern(patterns, i, st) ==
    LET node == patterns[i].node
        var == node.variable
        skip == Continue(st, st.plan_opt, st.bound_vars)
    IN IF var # None /\ IsBound(st.bound_vars, var.some)
       THEN IF node.properties # EmptyMap
            THEN Continue(st,
                     Some(Filter(st.plan_opt.some,
                                 InlinePredicate(var.some, node.properties))),
                     st.bound_vars)
            ELSE skip
       ELSE IF var # None /\ var.some \in to_node_vars(patterns) THEN skip
       ELSE IF /\ i > 1
               /\ IsEdge(patterns[i - 1])
               /\ patterns[i - 1].edge.to_node.variable # None
               /\ var # None
               /\ patterns[i - 1].edge.to_node.variable = var
            THEN skip
       ELSE IF /\ i + 1 <= Len(patterns)
               /\ IsEdge(patterns[i + 1])
               /\ var # None
               /\ \/ /\ patterns[i + 1].edge.to_node.variable # None
                     /\ patterns[i + 1].edge.to_node.variable = var
                  \/ /\ st.plan_opt # None
                     /\ patterns[i + 1].edge.from_node.variable # None
                     /\ patterns[i + 1].edge.from_node.variable = var
            THEN skip
       ELSE IF var = None THEN Fail(st)
       ELSE LET scan == BaseScan(var.some, node)
                node_plan ==
                    IF node.properties # EmptyMap
                    THEN Filter(scan,
                                InlinePredicate(var.some, node.properties))
                    ELSE scan
            IN Continue(st,
                   IF st.plan_opt = None THEN Some(node_plan)
                   ELSE Some(CartesianProduct(st.plan_opt.some, node_plan)),
                   st.bound_vars \cup {var.some})

\* from_var of the edge patterns[i]: None when the arm returns an error
FromVar(patterns, i) ==
    LET edge == patterns[i].edge
    IN IF edge.from_node.variable # None THEN edge.from_node.variable
       ELSE IF i > 1 /\ IsNode(patterns[i - 1])
            THEN patterns[i - 1].node.variable
            ELSE None

\* to_var of the edge patterns[i]: None when the arm returns an error
ToVar(patterns, i) ==
    LET edge == patterns[i].edge
    IN IF edge.to_node.variable # None THEN edge.to_node.variable
       ELSE IF i + 1 <= Len(patterns) /\ IsNode(patterns[i + 1])
            THEN patterns[i + 1].node.variable
            ELSE Some("__anon_to_" \o ToString(i - 1))

\* the predicate an adjacent Pattern::Node with the variable to_var adds
AdjacentPredicate(patterns, j, to_var, predicate_opt) ==
    IF /\ j >= 1
       /\ j <= Len(patterns)
       /\ IsNode(patterns[j])
       /\ patterns[j].node.variable = Some(to_var)
       /\ patterns[j].node.properties # EmptyMap
    THEN Combine(predicate_opt,
                 InlinePredicate(to_var, patterns[j].node.properties))
    ELSE predicate_opt

\* the arm Pattern::Edge of the loop, for patterns[i]
PlanEdgePattern(patterns, i, st) ==
    LET edge == patterns[i].edge
        from_var == FromVar(patterns, i)
        to_var == ToVar(patterns, i)
    IN IF from_var = None \/ to_var = None THEN Fail(st)
       ELSE
       LET current == IF st.plan_opt # None THEN st.plan_opt.some
                      ELSE BaseScan(from_var.some, edge.from_node)
           input_plan ==
               IF edge.from_node.properties # EmptyMap
               THEN Filter(current,
                           InlinePredicate(from_var.some,
                                           edge.from_node.properties))
               ELSE current
           expand == Expand(input_plan, from_var.some, to_var.some, edge)
           prev_pred == AdjacentPredicate(patterns, i - 1, to_var.some, None)
           next_pred ==
               AdjacentPredicate(patterns, i + 1, to_var.some, prev_pred)
           predicate_opt ==
               IF edge.from_node.properties # EmptyMap
               THEN Combine(next_pred,
                            InlinePredicate(from_var.some,
                                            edge.from_node.properties))
               ELSE next_pred
           expand_plan == IF predicate_opt # None
                          THEN Filter(expand, predicate_opt.some)
                          ELSE expand
       IN Continue(st, Some(expand_plan), st.bound_vars \cup {to_var.some})

\* the loop over patterns[i..]
RECURSIVE PlanPatterns(_, _, _)
PlanPatterns(patterns, i, st) ==
    IF i > Len(patterns) \/ st.err # None THEN st
    ELSE PlanPatterns(patterns, i + 1,
             IF IsNode(patterns[i]) THEN PlanNodePattern(patterns, i, st)
             ELSE PlanEdgePattern(patterns, i, st))

\* the safety net over patterns[i..]: the inline properties of every
\* Pattern::Node that has a variable, AND-combined
RECURSIVE GlobalPredicate(_, _, _)
GlobalPredicate(patterns, i, global_pred_opt) ==
    IF i > Len(patterns) THEN global_pred_opt
    ELSE GlobalPredicate(patterns, i + 1,
             IF /\ IsNode(patterns[i])
                /\ patterns[i].node.variable # None
                /\ patterns[i].node.properties # EmptyMap
             THEN Combine(global_pred_opt,
                          InlinePredicate(patterns[i].node.variable.some,
                                          patterns[i].node.properties))
             ELSE global_pred_opt)

\* Planner::plan_match: [res, steps] with res Ok(plan) or InvalidArgument
plan_match(patterns) ==
    LET st == PlanPatterns(patterns, 1, PlanState(None, {}, <<>>, None))
        global_pred == GlobalPredicate(patterns, 1, None)
    IN [steps |-> st.steps,
        res |-> IF patterns = <<>> \/ st.err # None \/ st.plan_opt = None
                THEN InvalidArgument
                ELSE IF global_pred # None
                     THEN [ok |-> Filter(st.plan_opt.some, global_pred.some)]
                     ELSE [ok |-> st.plan_opt.some]]

(***************************************************************************)
(* exec/executor.rs: the plan nodes of a MATCH                             *)
(***************************************************************************)
NodeIdValue(id) == [t |-> "NodeId", id |-> id]

RECURSIVE InsertProps(_, _, _, _)
InsertProps(tuple, variable, properties, keys) ==
    IF keys = {} THEN tuple
    ELSE LET k == CHOOSE x \in keys : TRUE
         IN InsertProps(Put(tuple, variable \o "." \o k, properties[k]),
                        variable, properties, keys \ {k})

\* tuple.insert(variable, NodeId(n.id)) and tuple.insert("variable.k", v)
\* for every property of the node
BindNode(tuple, variable, n) ==
    InsertProps(Put(tuple, variable, NodeIdValue(n.id)), variable,
                n.properties, DOMAIN n.properties)

\* eval_expr and the test of PlanNode::Filter: an error (a missing
\* property, operands of two types) and a value that is no Bool drop the
\* tuple
RECURSIVE EvalTrue(_, _)
EvalTrue(expr, tuple) ==
    IF expr.e = "And" THEN EvalTrue(expr.l, tuple) /\ EvalTrue(expr.r, tuple)
    ELSE LET key == expr.var \o "." \o expr.prop
         IN key \in DOMAIN tuple /\ tuple[key] = expr.lit

\* the single-hop arm of PlanNode::Expand for one input tuple
ExpandTuple(s, tuple, node) ==
    IF node.from_var \in DOMAIN tuple /\ tuple[node.from_var].t = "NodeId"
    THEN {BindNode(tuple, node.to_var, nb[2]) :
             nb \in {x \in AsSet(get_neighbors(s, tuple[node.from_var].id,
                                               None)) :
                        ~(/\ node.to_var \in DOMAIN tuple
                          /\ tuple[node.to_var] = NodeIdValue(x[2].id))}}
    ELSE {}

\* execute_node_with_context with an empty parent tuple: the tuples of the
\* result, without their order and multiplicity
RECURSIVE execute_node(_, _)
execute_node(node, s) ==
    CASE node.kind = "LabelScan" ->
            {BindNode(EmptyMap, node.variable, n) :
                n \in AsSet(scan_by_label(s, node.label))}
      [] node.kind = "FullScan" ->
            {BindNode(EmptyMap, node.variable, n) :
                n \in UNION {AsSet(scan_all(s, o)) : o \in Orders(s.nodes)}}
      [] node.kind = "Filter" ->
            {t \in execute_node(node.input, s) : EvalTrue(node.predicate, t)}
      [] node.kind = "CartesianProduct" ->
            {r @@ l : l \in execute_node(node.left, s),
                      r \in execute_node(node.right, s)}
      [] node.kind = "Expand" ->
            UNION {ExpandTuple(s, t, node) : t \in execute_node(node.input, s)}

(***************************************************************************)
(* MATCH queries over a graph                                              *)
(***************************************************************************)
MaxPatternNodes == 3     \* node patterns in a MATCH clause

PatternVars == {None, Some("a"), Some("b")}

PatternProps == {EmptyMap, "k" :> [t |-> "String", s |-> "a"]}

NodePatterns ==
    {NodePattern(v, l, p) :
        v \in PatternVars, l \in {<<>>, <<"A">>}, p \in PatternProps}

\* the store after add_node(["A"], {k: "a"}), add_node(["A"], {}),
\* add_node([], {k: "b"}), add_edge(1, 2), add_edge(2, 3), add_edge(2, 1)
QueryStore ==
    LET str(x) == [t |-> "String", s |-> x]
        s1 == add_node(NewStore, <<"A">>, "k" :> str("a"), FALSE).store
        s2 == add_node(s1, <<"A">>, EmptyMap, FALSE).store
        s3 == add_node(s2, <<>>, "k" :> str("b"), FALSE).store
        s4 == add_edge(s3, 1, 2, "T", EmptyMap, FALSE).store
        s5 == add_edge(s4, 2, 3, "T", EmptyMap, FALSE).store
    IN add_edge(s5, 2, 1, "T", EmptyMap, FALSE).store

\* a MATCH clause is parsed, planned and executed on the store; one clause
\* per behaviour, since planning keeps nothing from one call to the next
PlanMatch ==
    /\ planned.op = "none"
    /\ \E n \in 1..MaxPatternNodes :
          \E nodes \in [1..n -> NodePatterns], commas \in SUBSET (1..(n - 1)) :
             LET patterns == parse_match(nodes, commas)
                 p == plan_match(patterns)
             IN planned' = [op |-> "match", nodes |-> nodes,
                            patterns |-> patterns, steps |-> p.steps,
                            res |-> p.res,
                            rows |-> IF p.res = InvalidArgument THEN {}
                                     ELSE execute_node(p.res.ok, QueryStore)]
    /\ UNCHANGED <<walvars, engvars, idxvars, catvars, execvars>>

NextPlan == PlanMatch

SpecPlan == Init /\ [][NextPlan]_vars

(***************************************************************************)
(* exec/executor.rs: traverse_variable_length                              *)
(***************************************************************************)
\* u32::MAX, for depths of DepthBits bits
U32Max == 2 ^ DepthBits - 1

\* visited.contains(&to_node.id), seen from a traversal that marks nothing
NeverVisited(visited, id) == FALSE

\* visited.contains(&to_node.id)
Visited(visited, id) == id \in visited

\* the neighbours of node_id to the right whatever the direction and the
\* edge types asked for
RightNeighbors(s, node_id, edge_types, direction) ==
    get_neighbors(s, node_id, None)

\* the neighbours of node_id according to direction, then
\* neighbors.retain(|(edge, _)| edge_types.contains(edge.edge_type)) when
\* edge_types is not empty
TypedNeighbors(s, node_id, edge_types, direction) ==
    LET neighbors ==
            CASE direction = "Right" -> get_neighbors(s, node_id, None)
              [] direction = "Left" -> get_neighbors_incoming(s, node_id, None)
              [] direction = "Both" ->
                    get_neighbors(s, node_id, None)
                       \o get_neighbors_incoming(s, node_id, None)
    IN IF edge_types = <<>> THEN neighbors
       ELSE SelectSeq(neighbors,
                      LAMBDA nb : nb[1].edge_type \in AsSet(edge_types))

\* the loop `for (_edge, to_node) in neighbors` over neighbors[i..], for the
\* node popped at this depth
RECURSIVE VisitNeighbors(_, _, _, _)
VisitNeighbors(b, neighbors, i, depth) ==
    IF i > Len(neighbors) THEN b
    ELSE LET to_node == neighbors[i][2]
             next_depth == depth + 1
         IN IF Visited(b.visited, to_node.id)
            THEN VisitNeighbors(b, neighbors, i + 1, depth)
            ELSE VisitNeighbors(
                     [b EXCEPT
                        !.visited = @ \cup {to_node.id},
                        !.result =
                            IF /\ next_depth >= b.min_depth
                               /\ next_depth <= b.max_depth
                               /\ to_node.id # b.start_id
                            THEN Append(@, to_node)
                            ELSE @,
                        !.queue =
                            IF next_depth < b.max_depth
                            THEN Append(@, <<to_node.id, next_depth>>)
                            ELSE @,
                        !.pushed =
                            IF next_depth < b.max_depth
                            THEN Append(@, to_node.id)
                            ELSE @],
                     neighbors, i + 1, depth)

\* the edges a traversed store may hold, as <<from, to, type>>
CandidateEdges ==
    <<<<1, 2, "T">>, <<2, 3, "U">>, <<3, 1, "T">>, <<2, 2, "T">>,
      <<1, 3, "V">>>>

RECURSIVE AddEdges(_, _, _)
AddEdges(s, chosen, i) ==
    IF i > Len(CandidateEdges) THEN s
    ELSE AddEdges(IF i \in chosen
                  THEN add_edge(s, CandidateEdges[i][1], CandidateEdges[i][2],
                                CandidateEdges[i][3], EmptyMap, FALSE).store
                  ELSE s,
                  chosen, i + 1)

\* the store after three add_node calls and an add_edge for every chosen
\* candidate edge
TraversedStore(chosen) ==
    LET s1 == add_node(NewStore, <<>>, EmptyMap, FALSE).store
        s2 == add_node(s1, <<>>, EmptyMap, FALSE).store
        s3 == add_node(s2, <<>>, EmptyMap, FALSE).store
    IN AddEdges(s3, chosen, 1)

\* the depths of the DepthRange of an edge pattern: parse_depth_range gives
\* u32::MAX for an open upper bound
MinDepths == 0..MaxDepth

MaxDepths == (0..MaxDepth) \cup {U32Max}

\* traverse_variable_length is called: queue.push_back((start_id, 0)) and
\* visited.insert(start_id)
BfsStart ==
    /\ bfs.pc = "idle"
    /\ \E chosen \in SUBSET DOMAIN CandidateEdges, start_id \in 1..3,
          edge_types \in {<<>>, <<"T">>, <<"T", "U">>},
          direction \in {"Right", "Left", "Both"},
          min_depth \in MinDepths, max_depth \in MaxDepths :
             bfs' = [pc |-> "run", chosen |-> chosen,
                     store |-> TraversedStore(chosen), start_id |-> start_id,
                     edge_types |-> edge_types, direction |-> direction,
                     min_depth |-> min_depth, max_depth |-> max_depth,
                     result |-> <<>>, visited |-> {start_id},
                     queue |-> <<<<start_id, 0>>>>,
                     pushed |-> <<start_id>>, pops |-> 0]
    /\ UNCHANGED <<walvars, engvars, idxvars, catvars, planvars, ev>>

\* one turn of `while let Some((node_id, depth)) = queue.pop_front()`
BfsStep ==
    /\ bfs.pc = "run"
    /\ bfs.queue # <<>>
    /\ LET node_id == Head(bfs.queue)[1]
           depth == Head(bfs.queue)[2]
           popped == [bfs EXCEPT !.queue = Tail(@), !.pops = @ + 1]
       IN bfs' = IF depth >= bfs.max_depth THEN popped
                 ELSE VisitNeighbors(popped,
                          TypedNeighbors(bfs.store, node_id,
                                         bfs.edge_types, bfs.direction),
                          1, depth)
    /\ UNCHANGED <<walvars, engvars, idxvars, catvars, planvars, ev>>

\* the queue is empty: Ok(result)
BfsReturn ==
    /\ bfs.pc = "run"
    /\ bfs.queue = <<>>
    /\ bfs' = [bfs EXCEPT !.pc = "done"]
    /\ UNCHANGED <<walvars, engvars, idxvars, catvars, planvars, ev>>

NextTraverse == BfsStart \/ BfsStep \/ BfsReturn

\* one traversal; the loop runs on the calling thread until it returns
SpecTraverse ==
    Init /\ [][NextTraverse]_vars /\ WF_vars(BfsStep \/ BfsReturn)

(***************************************************************************)
(* exec/executor.rs: eval_expr, eval_binary_op, Project and execute        *)
(***************************************************************************)
Bool(b) == [t |-> "Bool", b |-> b]

Int64(i) == [t |-> "Int", i |-> i]

Null == [t |-> "Null"]

Literal(v) == [e |-> "Literal", lit |-> v]

Ident(name) == [e |-> "Ident", name |-> name]

Property(var, prop) == [e |-> "Property", var |-> var, prop |-> prop]

Parameter(name) == [e |-> "Parameter", name |-> name]

BinaryOp(left, op, right) ==
    [e |-> "BinaryOp", left |-> left, op |-> op, right |-> right]

\* Executor::eval_binary_op for Int and Bool operands; operands of two
\* types are a type mismatch
eval_binary_op(left, op, right) ==
    CASE left.t = "Int" /\ right.t = "Int" ->
            CASE op = "Div" -> IF right.i = 0 THEN InvalidArgument
                               ELSE [ok |-> Int64(left.i \div right.i)]
              [] op = "Eq" -> [ok |-> Bool(left.i = right.i)]
              [] OTHER -> InvalidArgument
      [] left.t = "Bool" /\ right.t = "Bool" ->
            CASE op = "And" -> [ok |-> Bool(left.b /\ right.b)]
              [] op = "Or" -> [ok |-> Bool(left.b \/ right.b)]
              [] op = "Eq" -> [ok |-> Bool(left.b = right.b)]
              [] OTHER -> InvalidArgument
      [] OTHER -> InvalidArgument

\* Executor::eval_expr
RECURSIVE eval_expr(_, _, _)
eval_expr(expr, tuple, parameters) ==
    CASE expr.e = "Literal" -> [ok |-> expr.lit]
      [] expr.e = "Ident" ->
            IF expr.name \in DOMAIN tuple THEN [ok |-> tuple[expr.name]]
            ELSE InvalidArgument
      [] expr.e = "Property" ->
            LET key == expr.var \o "." \o expr.prop
            IN IF key \in DOMAIN tuple THEN [ok |-> tuple[key]]
               ELSE InvalidArgument
      [] expr.e = "Parameter" ->
            IF expr.name \in DOMAIN parameters
            THEN [ok |-> parameters[expr.name]]
            ELSE InvalidArgument
      [] expr.e = "BinaryOp" ->
            LET l == eval_expr(expr.left, tuple, parameters)
            IN IF l = InvalidArgument THEN InvalidArgument
               ELSE LET r == eval_expr(expr.right, tuple, parameters)
                    IN IF r = InvalidArgument THEN InvalidArgument
                       ELSE eval_binary_op(l.ok, expr.op, r.ok)

\* ValueExt::to_json
value_to_json(v) ==
    CASE v.t = "Int" -> [j |-> "Number", n |-> v.i]
      [] v.t = "NodeId" -> [j |-> "Number", n |-> v.id]
      [] v.t = "Bool" -> [j |-> "Bool", b |-> v.b]
      [] v.t = "String" -> [j |-> "String", s |-> v.s]
      [] v.t = "Null" -> [j |-> "Null"]

\* the column of a RETURN item: its alias, the name of an identifier,
\* "var.prop" for a property, "?" otherwise
ItemName(item) ==
    IF item.alias # None THEN item.alias.some
    ELSE CASE item.expr.e = "Ident" -> item.expr.name
           [] item.expr.e = "Property" ->
                 item.expr.var \o "." \o item.expr.prop
           [] OTHER -> "?"

\* PlanNode::Project for one input tuple and items[i..]:
\* `if let Ok(val) = self.eval_expr(&item.expr, &t, None)` inserts the value
\* under the item's name, and leaves out an item whose expression fails
RECURSIVE ProjectTuple(_, _, _, _, _)
ProjectTuple(result, t, items, i, parameters) ==
    IF i > Len(items) THEN result
    ELSE LET val == eval_expr(items[i].expr, t, parameters)
         IN ProjectTuple(IF val = InvalidArgument THEN result
                         ELSE Put(result, ItemName(items[i]), val.ok),
                         t, items, i + 1, parameters)

\* Executor::execute of Project { input, items }: execute_node cannot fail
\* on a scan under a Project; the rows hold, per item name, the JSON of the
\* projected value, or null when the tuple lacks it
execute(input, items, s, parameters) ==
    LET projected == {ProjectTuple(EmptyMap, t, items, 1, parameters) :
                         t \in execute_node(input, s)}
        names == [i \in DOMAIN items |-> ItemName(items[i])]
    IN [ok |-> [columns |-> names,
                rows |-> {[i \in DOMAIN names |->
                             IF names[i] \in DOMAIN p
                             THEN value_to_json(p[names[i]])
                             ELSE value_to_json(Null)] :
                          p \in projected}]]

Leaves ==
    {Literal(Bool(TRUE)), Literal(Bool(FALSE)), Literal(Int64(0)),
     Literal(Int64(1)), Ident("a"), Ident("b"), Property("a", "k"),
     Property("a", "m"), Parameter("p"), Parameter("q")}

BinOps == {"And", "Or", "Div", "Eq"}

Flat == {BinaryOp(l, op, r) : l \in Leaves, op \in BinOps, r \in Leaves}

Exprs ==
    Leaves \cup Flat
       \cup {BinaryOp(l, op, r) :
                l \in {Literal(Bool(TRUE)), Literal(Bool(FALSE))},
                op \in {"And", "Or"}, r \in Flat}

\* the store after add_node([], {k: 1}) and add_node([], {})
EvalStore ==
    LET s1 == add_node(NewStore, <<>>, "k" :> Int64(1), FALSE).store
    IN add_node(s1, <<>>, EmptyMap, FALSE).store

EvalTuples ==
    {BindNode(EmptyMap, "a", EvalStore.nodes[id]) :
        id \in DOMAIN EvalStore.nodes}

EvalParameters == {EmptyMap, "p" :> Int64(0), "p" :> Bool(TRUE)}

\* an expression is evaluated against a tuple
EvalExpr ==
    /\ ev.op = "none"
    /\ \E expr \in Exprs, tuple \in EvalTuples, parameters \in EvalParameters :
          ev' = [op |-> "eval", expr |-> expr, tuple |-> tuple,
                 parameters |-> parameters,
                 res |-> eval_expr(expr, tuple, parameters)]
    /\ UNCHANGED <<walvars, engvars, idxvars, catvars, planvars, bfs>>

ItemExprs ==
    Leaves \cup {BinaryOp(l, "Div", r) :
                    l \in {Literal(Int64(1)), Property("a", "k")},
                    r \in {Literal(Int64(0)), Literal(Int64(1)),
                           Property("a", "k")}}

Items == {[expr |-> x, alias |-> al] : x \in ItemExprs, al \in {None, Some("x")}}

\* MATCH (a) RETURN items is executed on the store
Execute ==
    /\ ev.op = "none"
    /\ \E n \in 1..2 :
          \E items \in [1..n -> Items], parameters \in EvalParameters :
             LET input == FullScan("a")
             IN ev' = [op |-> "execute", input |-> input, items |-> items,
                       parameters |-> parameters,
                       res |-> execute(input, items, EvalStore, parameters)]
    /\ UNCHANGED <<walvars, engvars, idxvars, catvars, planvars, bfs>>

NextEval == EvalExpr \/ Execute

SpecEval == Init /\ [][NextEval]_vars

(***************************************************************************)
(* exec/parser.rs: parse_patterns_create; exec/executor.rs: execute_create *)
(* and PlanNode::MatchCreate                                               *)
(***************************************************************************)
MaxCreateNodes == 3     \* node patterns in a CREATE clause

\* parse_patterns_create on the node patterns nodes[j..] of the text, where
\* commas holds the j with a comma after node j and types[j] is the type of
\* the edge after node j otherwise: a chain pushes one Pattern::Edge per
\* edge, and its last node as a Pattern::Node unless the last pattern pushed
\* so far is an edge
RECURSIVE parse_patterns_create(_, _, _, _, _)
parse_patterns_create(nodes, commas, types, j, all_patterns) ==
    IF j < Len(nodes) /\ j \notin commas
    THEN parse_patterns_create(
             nodes, commas, types, j + 1,
             Append(all_patterns,
                    [edge |-> [EdgePattern(nodes[j], nodes[j + 1])
                                  EXCEPT !.edge_type = types[j]]]))
    ELSE LET pushed ==
                 IF all_patterns = <<>> \/ IsNode(all_patterns[Len(all_patterns)])
                 THEN Append(all_patterns, [node |-> nodes[j]])
                 ELSE all_patterns
         IN IF j < Len(nodes)
            THEN parse_patterns_create(nodes, commas, types, j + 1, pushed)
            ELSE pushed

\* created_vars.get(var).or_else(|| parent_tuple.get(var) if it is a NodeId)
\* for the endpoint of an edge pattern
ResolveEndpoint(variable, created_vars, parent_tuple) ==
    IF variable = None THEN InvalidArgument
    ELSE IF variable.some \in DOMAIN created_vars
    THEN [ok |-> created_vars[variable.some]]
    ELSE IF /\ variable.some \in DOMAIN parent_tuple
            /\ parent_tuple[variable.some].t = "NodeId"
    THEN [ok |-> parent_tuple[variable.some].id]
    ELSE InvalidArgument

\* Executor::execute_create on patterns[i..]: [store, res] with the store
\* as the calls made so far leave it
RECURSIVE execute_create(_, _, _, _, _, _, _)
execute_create(patterns, i, parent_tuple, created_vars, result_tuple, s, oc) ==
    IF i > Len(patterns)
    THEN [store |-> s, res |-> [ok |-> <<result_tuple>>]]
    ELSE IF IsNode(patterns[i])
    THEN LET node_pattern == patterns[i].node
             r == add_node(s, node_pattern.labels, node_pattern.properties, oc)
         IN IF r.res = Panic THEN r
            ELSE IF node_pattern.variable = None
            THEN execute_create(patterns, i + 1, parent_tuple, created_vars,
                                result_tuple, r.store, oc)
            ELSE execute_create(
                     patterns, i + 1, parent_tuple,
                     Put(created_vars, node_pattern.variable.some, r.res.ok),
                     Put(result_tuple, node_pattern.variable.some,
                         NodeIdValue(r.res.ok)),
                     r.store, oc)
    ELSE LET edge_pattern == patterns[i].edge
             from_id == ResolveEndpoint(edge_pattern.from_node.variable,
                                        created_vars, parent_tuple)
             to_id == ResolveEndpoint(edge_pattern.to_node.variable,
                                      created_vars, parent_tuple)
         IN IF from_id = InvalidArgument \/ to_id = InvalidArgument
               \/ edge_pattern.edge_type = None
            THEN [store |-> s, res |-> InvalidArgument]
            ELSE LET r == add_edge(s, from_id.ok, to_id.ok,
                                   edge_pattern.edge_type.some,
                                   edge_pattern.properties, oc)
                 IN IF r.res = Panic THEN r
                    ELSE execute_create(patterns, i + 1, parent_tuple,
                                        created_vars, result_tuple, r.store, oc)

\* PlanNode::MatchCreate on match_tuples[k..]: execute_create once per
\* matched tuple, returning at the first error
RECURSIVE match_create(_, _, _, _, _, _)
match_create(match_tuples, k, create_patterns, all_results, s, oc) ==
    IF k > Len(match_tuples) THEN [store |-> s, res |-> [ok |-> all_results]]
    ELSE LET created == execute_create(create_patterns, 1, match_tuples[k],
                                       EmptyMap, match_tuples[k], s, oc)
         IN IF "ok" \notin DOMAIN created.res THEN created
            ELSE match_create(match_tuples, k + 1, create_patterns,
                              all_results \o created.res.ok, created.store, oc)

CreateVars == {None, Some("a"), Some("m")}

CreateTypes == {None, Some("T")}

\* CREATE patterns, or MATCH (m) CREATE patterns, is executed on the store
Create ==
    /\ ev.op = "none"
    /\ \E n \in 1..MaxCreateNodes :
          \E variables \in [1..n -> CreateVars], commas \in SUBSET (1..(n - 1)),
             types \in [1..(n - 1) -> CreateTypes], matched \in BOOLEAN,
             order \in Orders(store.nodes), oc \in BOOLEAN :
             LET nodes == [j \in 1..n |-> NodePattern(variables[j], <<>>, EmptyMap)]
                 patterns == parse_patterns_create(nodes, commas, types, 1, <<>>)
                 match_tuples ==
                     [k \in DOMAIN order |->
                         BindNode(EmptyMap, "m", scan_all(store, order)[k])]
                 r == IF matched
                      THEN match_create(match_tuples, 1, patterns, <<>>,
                                        store, oc)
                      ELSE execute_create(patterns, 1, EmptyMap, EmptyMap,
                                          EmptyMap, store, oc)
             IN /\ store' = r.store
                /\ ev' = [op |-> "create", patterns |-> patterns,
                          matched |-> matched, res |-> r.res]
    /\ UNCHANGED <<walvars, engvars, segs, gres, gops, catvars, planvars, bfs>>

\* the store receives its first nodes: one or two add_node calls
Populate ==
    /\ store = NewStore
    /\ ev.op = "none"
    /\ \E two \in BOOLEAN :
          LET s1 == add_node(store, <<>>, EmptyMap, FALSE).store
          IN store' = IF two THEN add_node(s1, <<>>, EmptyMap, FALSE).store
                      ELSE s1
    /\ UNCHANGED <<walvars, engvars, segs, gres, gops, catvars, planvars,
                   execvars>>

NextCreate == Populate \/ Create

SpecCreate == Init /\ [][NextCreate]_vars

IsPrefix(a, b) == Len(a) <= Len(b) /\ SubSeq(b, 1, Len(a)) = a

IsSuffix(a, b) == Len(a) <= Len(b) /\ SubSeq(b, Len(b) - Len(a) + 1, Len(b)) = a

\* C1: no step truncates or rewrites an existing WAL file: every file stays
\* in the directory and keeps the bytes it had as a prefix of its content.
C1_WalNeverRewritten ==
    [][\A n \in DOMAIN wal :
          n \in DOMAIN wal' /\ IsPrefix(wal[n].bytes, wal'[n].bytes)]_vars

\* the version_ts a manifest file name carries
TsOfName(n) == parse_ts_from_filename(n).some

\* thread p's rename succeeds in this step: its manifest becomes visible
Publishes(p) == th[p].pc = "aw_rename" /\ th'[p].pc = "aw_fsyncdir"

\* C2: the step that publishes a call's manifest adds exactly one manifest
\* file, its version_ts is greater than that of every manifest published
\* before, and no step changes or removes a published manifest's content.
C2_StrictlyNewerManifest ==
    [][/\ \A n \in ManifestNames(mdir) :
             /\ n \in ManifestNames(mdir')
             /\ inodes'[mdir'[n]].bytes = inodes[mdir[n]].bytes
       /\ \A p \in Threads : Publishes(p) =>
             \E n \in ManifestNames(mdir') \ ManifestNames(mdir) :
                /\ ManifestNames(mdir') = ManifestNames(mdir) \cup {n}
                /\ TsOfName(n) = th[p].meta.version_ts
                /\ \A o \in ManifestNames(mdir) : TsOfName(o) < TsOfName(n)
      ]_vars

\* C3: every manifest file a listing shows can be read whole.
C3_ManifestAbsentOrComplete ==
    \A n \in ManifestNames(mdir) : read_manifest(mdir, inodes, n) # StorageIo

CommitPcs == {"wal_open", "wal_write", "wal_tail", "snap_read", "aw_create",
              "aw_write", "aw_rename", "aw_fsyncdir"}

\* thread p is inside backend.commit_tx: between its first WAL step and the
\* return that follows the publication of its manifest
InCommit(p) == th[p].op = "commit" /\ th[p].pc \in CommitPcs

\* C4: two commit_tx calls on the branch are never both between the start
\* of the WAL append and the end of the manifest publication.
C4_WritersSerialised ==
    \A p, q \in Threads : (InCommit(p) /\ InCommit(q)) => p = q

\* a commit_tx holds the branch while another commit_tx waits for the lock
C4_Witness ==
    \E p, q \in Threads :
        /\ InCommit(p) /\ th[p].pc = "aw_write"
        /\ th[q].op = "commit" /\ th[q].pc = "lock"

\* the bytes write_record leaves in a segment for these records
RECURSIVE Frames(_)
Frames(records) ==
    IF records = <<>> THEN <<>>
    ELSE Frame(Head(records)) \o Frames(Tail(records))

\* what a reader of the branch can see of its manifests
ManifestView == [n \in ManifestNames(mdir) |-> inodes[mdir[n]].bytes]

\* thread p's commit has written every record to its segment and synced it
WalDurable(p) ==
    LET name == wal_filename(th[p].w.epoch, th[p].w.seq)
    IN /\ th[p].w # None
       /\ name \in DOMAIN wal
       /\ wal[name].bytes = Frames(th[p].records)
       /\ wal[name].synced = Len(wal[name].bytes)

\* C5: a step of a commit_tx call changes the visible manifests only when
\* all the records of the commit are in its WAL segment and synced; a call
\* that fails in a WAL write or flush never gets there.
C5_ManifestAfterDurableWal ==
    [][\A p \in Threads :
          (th[p].op = "commit" /\ th'[p] # th[p] /\ ManifestView' # ManifestView)
              => (th[p].pc \in {"aw_write", "aw_rename"} /\ WalDurable(p))]_vars

\* a commit of two records has published its manifest
C5_Witness ==
    \E p \in Threads :
        /\ th[p].op = "commit" /\ th[p].pc = "aw_fsyncdir"
        /\ Len(th[p].records) = 2
        /\ ManifestFileName(th[p].meta.version_ts) \in ManifestNames(mdir)

\* C6: the manifest a commit_tx has published carries the tail of the WAL
\* segment that commit wrote.
C6_ManifestTailIsCommitTail ==
    \A p \in Threads :
        (th[p].op = "commit" /\ th[p].pc = "aw_fsyncdir") =>
            LET m == read_manifest(mdir, inodes,
                                   ManifestFileName(th[p].meta.version_ts))
            IN /\ m # StorageIo
               /\ m.ok.wal_tail =
                      Some([epoch |-> th[p].w.epoch, seq |-> th[p].w.seq])

\* the manifests published on the branch, as ManifestMeta
Published ==
    {to_meta(read_manifest(mdir, inodes, n).ok) :
        n \in {x \in ManifestNames(mdir) :
                  read_manifest(mdir, inodes, x) # StorageIo}}

StrictlyAscending(ts) == \A i \in 1..(Len(ts) - 1) : ts[i] < ts[i + 1]

\* C7: a successful list_snapshot_timestamps is strictly ascending, and
\* latest_manifest_meta returns the published manifest whose version_ts is
\* the greatest.
C7_ListingIsNumeric ==
    [][/\ (rd'.op = "list" /\ rd'.res # StorageIo)
              => StrictlyAscending(rd'.res.ok)
       /\ (rd'.op = "latest" /\ rd'.res # StorageIo /\ Published # {})
              => /\ rd'.res.ok # None
                 /\ rd'.res.ok.some \in Published
                 /\ \A m \in Published :
                       m.version_ts <= rd'.res.ok.some.version_ts
      ]_rd

\* the answer the contract of pitr_manifest gives for `at`
PitrExpected(at) ==
    LET older == {m \in Published : m.version_ts <= at}
    IN IF older = {} THEN [ok |-> None]
       ELSE [ok |-> Some(CHOOSE m \in older :
                            \A o \in older : o.version_ts <= m.version_ts)]

\* C8: pitr_manifest_meta(branch, at) returns the published manifest with
\* the greatest version_ts <= at, and nothing when there is none.
C8_PitrGreatestNotAfter ==
    [][rd'.op = "pitr" => rd'.res = PitrExpected(rd'.at)]_rd

\* with manifests 9 and 10 published, pitr at 10 and later answers 10, pitr
\* at 9 answers 9 and pitr at 8 answers nothing
C8_Witness ==
    /\ rd.op = "pitr"
    /\ Cardinality(Published) >= 2
    /\ rd.at >= EpochStart + 1
    /\ rd.res = PitrExpected(rd.at)
    /\ rd.res.ok # None
    /\ rd.res.ok.some.version_ts = EpochStart + 1

\* C9: reading the segment named by the tail that append_records returned
\* succeeds with a record sequence that ends with the appended records.
C9_WalRoundTrip ==
    walres.op = "read" =>
        /\ walres.res # StorageIo
        /\ IsSuffix(walres.records, walres.res.ok)

\* the bytes are a concatenation of whole records (length prefix + payload)
RECURSIVE WellFramed(_)
WellFramed(bytes) ==
    \/ Len(bytes) = 0
    \/ /\ Len(bytes) >= 4
       /\ LenFromBytes(SubSeq(bytes, 1, 4)) <= Len(bytes) - 4
       /\ WellFramed(SubSeq(bytes, 5 + LenFromBytes(SubSeq(bytes, 1, 4)),
                            Len(bytes)))

\* C10: reading a segment whose file ends inside a length prefix or inside
\* a payload fails with StorageIo.
C10_TornTailIsStorageIo ==
    walres.op = "read" =>
        LET name == wal_filename(walres.tail.epoch, walres.tail.seq)
        IN (name \in DOMAIN wal /\ ~WellFramed(wal[name].bytes))
               => walres.res = StorageIo

\* the graph store call made in this step
GraphCall(op) == gops' = gops + 1 /\ gres'.op = op

\* C11: an add_edge whose from or to is not a node of the store returns
\* InvalidArgument and leaves the edge table and both adjacency lists as
\* they were.
C11_AddEdgeRejectsAbsentEndpoint ==
    [][(/\ GraphCall("add_edge")
        /\ \/ gres'.from \notin DOMAIN store.nodes
           \/ gres'.to \notin DOMAIN store.nodes)
          => /\ gres'.res = InvalidArgument
             /\ store'.edges = store.edges
             /\ store'.adjacency_out = store.adjacency_out
             /\ store'.adjacency_in = store.adjacency_in]_vars

\* C12: both endpoints of every edge of the edge table are nodes of the
\* node table.
C12_EdgeEndpointsExist ==
    \A e \in DOMAIN store.edges :
        /\ store.edges[e].from_node \in DOMAIN store.nodes
        /\ store.edges[e].to_node \in DOMAIN store.nodes

\* the number of times x occurs in the list xs
Count(xs, x) == Cardinality({i \in DOMAIN xs : xs[i] = x})

\* the number of times edge e occurs in the adjacency list of node n
Occurs(adjacency, n, e) ==
    IF n \in DOMAIN adjacency THEN Count(adjacency[n], e) ELSE 0

\* C13: every edge of the edge table occurs once in the outgoing list of
\* its from node, once in the incoming list of its to node, and in no
\* other adjacency list.
C13_AdjacencyExactlyOnce ==
    \A e \in DOMAIN store.edges :
        /\ \A n \in DOMAIN store.adjacency_out :
              Occurs(store.adjacency_out, n, e) =
                  IF n = store.edges[e].from_node THEN 1 ELSE 0
        /\ \A n \in DOMAIN store.adjacency_in :
              Occurs(store.adjacency_in, n, e) =
                  IF n = store.edges[e].to_node THEN 1 ELSE 0
        /\ Occurs(store.adjacency_out, store.edges[e].from_node, e) = 1
        /\ Occurs(store.adjacency_in, store.edges[e].to_node, e) = 1

\* the label l is one of labels
HasLabel(labels, l) == \E i \in DOMAIN labels : labels[i] = l

\* C14: scan_by_label(l) returns each node of the node table whose labels
\* contain l once, and nothing else.
C14_LabelIndexMatchesNodes ==
    \A l \in Labels :
        LET scan == scan_by_label(store, l)
        IN /\ \A i \in DOMAIN scan :
                 /\ scan[i].id \in DOMAIN store.nodes
                 /\ scan[i] = store.nodes[scan[i].id]
                 /\ HasLabel(scan[i].labels, l)
           /\ \A id \in DOMAIN store.nodes :
                 HasLabel(store.nodes[id].labels, l)
                     => Count(scan, store.nodes[id]) = 1
           /\ \A i, j \in DOMAIN scan : scan[i] = scan[j] => i = j

\* C15: the counters are greater than every id of their table.
C15_CountersAboveIds ==
    /\ \A id \in DOMAIN store.nodes : id < store.next_node_id
    /\ \A id \in DOMAIN store.edges : id < store.next_edge_id

\* C17: a load from a segment store without the nodes or the edges segment
\* returns Ok, and with neither segment the loaded graph is empty.
C17_LoadFromAbsentSegmentsIsEmpty ==
    [][(/\ GraphCall("load")
        /\ ("nodes" \notin DOMAIN segs \/ "edges" \notin DOMAIN segs))
          => /\ gres'.res = [ok |-> TRUE]
             /\ ("nodes" \notin DOMAIN segs /\ "edges" \notin DOMAIN segs)
                    => (/\ DOMAIN store'.nodes = {}
                        /\ DOMAIN store'.edges = {})]_vars

EdgeTypeFilters == {None} \cup {Some(t) : t \in EdgeTypes}

\* the stores answer scan_by_label, get_neighbors and get_neighbors_incoming
\* with the same result sets
SameResults(s, t) ==
    /\ \A l \in Labels :
          AsSet(scan_by_label(s, l)) = AsSet(scan_by_label(t, l))
    /\ \A n \in NodeRefs, et \in EdgeTypeFilters :
          /\ AsSet(get_neighbors(s, n, et)) = AsSet(get_neighbors(t, n, et))
          /\ AsSet(get_neighbors_incoming(s, n, et)) =
                 AsSet(get_neighbors_incoming(t, n, et))

PublishedManifests ==
    {read_manifest(mdir, inodes, n).ok :
        n \in {x \in ManifestNames(mdir) :
                  read_manifest(mdir, inodes, x) # StorageIo}}

\* the source manifest the contract of create_branch selects: None, or
\* Some(manifest)
SourceManifest(at) ==
    LET cand == IF at = None THEN PublishedManifests
                ELSE {m \in PublishedManifests : m.version_ts <= at.some}
    IN IF cand = {} THEN None
       ELSE Some(CHOOSE m \in cand :
                    \A o \in cand : o.version_ts <= m.version_ts)

\* C16: create_branch(from, new, at) writes as the only manifest of `new` one
\* with branch = new and the segments and wal_tail of the source manifest
\* of `from` (the latest when `at` is absent, else the one with the
\* greatest version_ts <= at), and leaves the manifests of `from` as they are.
C16_CreateBranchCopiesSource ==
    [][(newbranch'.op = "create_branch"
        /\ SourceManifest(newbranch'.at) # None)
          => /\ newbranch'.res # StorageIo
             /\ Cardinality(DOMAIN newbranch'.res.ok) = 1
             /\ \A n \in DOMAIN newbranch'.res.ok :
                   LET m == newbranch'.res.ok[n]
                       src == SourceManifest(newbranch'.at).some
                   IN /\ m.branch = NewBranchName
                      /\ m.segments = src.segments
                      /\ m.wal_tail = src.wal_tail
             /\ UNCHANGED <<mdir, inodes>>
      ]_newbranch


\* tuple binds variable var to a node of the store whose property k is v
BindsWith(tuple, var, k, v) ==
    /\ var \in DOMAIN tuple
    /\ tuple[var].t = "NodeId"
    /\ tuple[var].id \in DOMAIN QueryStore.nodes
    /\ k \in DOMAIN QueryStore.nodes[tuple[var].id].properties
    /\ QueryStore.nodes[tuple[var].id].properties[k] = v

\* C19: for every node pattern of the MATCH clause with a variable and inline
\* properties {k: v} (standalone, first, middle or last of a chain), every
\* tuple the plan produces binds the variable to a node whose property k is v.
C19_InlinePropertiesEnforced ==
    (planned.op = "match" /\ planned.res # InvalidArgument) =>
        \A j \in DOMAIN planned.nodes :
            LET node == planned.nodes[j]
            IN node.variable # None =>
                  \A k \in DOMAIN node.properties, t \in planned.rows :
                      BindsWith(t, node.variable.some, k, node.properties[k])

\* the LabelScan / FullScan nodes of a plan, as paths from the root
RECURSIVE Scans(_, _)
Scans(plan, path) ==
    CASE plan.kind \in {"LabelScan", "FullScan"} ->
            {[path |-> path, variable |-> plan.variable]}
      [] plan.kind \in {"Filter", "Expand"} ->
            Scans(plan.input, Append(path, 0))
      [] plan.kind = "CartesianProduct" ->
            Scans(plan.left, Append(path, 1))
               \cup Scans(plan.right, Append(path, 2))

RECURSIVE Products(_)
Products(plan) ==
    CASE plan.kind \in {"LabelScan", "FullScan"} -> 0
      [] plan.kind \in {"Filter", "Expand"} -> Products(plan.input)
      [] plan.kind = "CartesianProduct" ->
            1 + Products(plan.left) + Products(plan.right)

\* the variables a plan binds: by a scan, or as the to_var of an Expand
RECURSIVE BoundBy(_)
BoundBy(plan) ==
    CASE plan.kind \in {"LabelScan", "FullScan"} -> {plan.variable}
      [] plan.kind = "Filter" -> BoundBy(plan.input)
      [] plan.kind = "Expand" -> BoundBy(plan.input) \cup {plan.to_var}
      [] plan.kind = "CartesianProduct" ->
            BoundBy(plan.left) \cup BoundBy(plan.right)

\* plan_opt before pattern i of the planned clause
StepBefore(i) == IF i = 1 THEN None ELSE planned.steps[i - 1]

\* pattern i is a node pattern whose variable the plan built so far binds
Rebinds(i) ==
    /\ IsNode(planned.patterns[i])
    /\ planned.patterns[i].node.variable # None
    /\ StepBefore(i) # None
    /\ planned.patterns[i].node.variable.some \in BoundBy(StepBefore(i).some)

\* C20: a MATCH plan holds at most one LabelScan / FullScan per node
\* variable, and a node pattern whose variable an earlier scan or an earlier
\* Expand (as its to_var) has bound adds no scan and no CartesianProduct:
\* it leaves the plan as it is or, when it has inline properties, wraps it
\* in a Filter.
C20_BindingReuse ==
    planned.op = "match" =>
        /\ planned.res # InvalidArgument =>
              \A x, y \in Scans(planned.res.ok, <<>>) :
                  x.variable = y.variable => x = y
        /\ \A i \in DOMAIN planned.steps :
              Rebinds(i) =>
                 \/ planned.steps[i] = StepBefore(i)
                 \/ /\ planned.patterns[i].node.properties # EmptyMap
                    /\ planned.steps[i].some.kind = "Filter"
                    /\ planned.steps[i].some.input = StepBefore(i).some

\* a clause such as MATCH (a)-->(b), (b {k: "a"}): the node pattern b comes
\* after the Expand that binds b, and lowers to a Filter over the plan
C20_Witness ==
    /\ planned.op = "match"
    /\ planned.res # InvalidArgument
    /\ \E i \in DOMAIN planned.steps :
          /\ Rebinds(i)
          /\ planned.patterns[i].node.properties # EmptyMap
          /\ planned.steps[i].some.kind = "Filter"
          /\ planned.steps[i].some.input = StepBefore(i).some
          /\ Products(planned.steps[i].some) = Products(StepBefore(i).some)


\* the Expand nodes of a plan
RECURSIVE ExpandNodes(_)
ExpandNodes(plan) ==
    CASE plan.kind \in {"LabelScan", "FullScan"} -> {}
      [] plan.kind = "Filter" -> ExpandNodes(plan.input)
      [] plan.kind = "Expand" -> {plan} \cup ExpandNodes(plan.input)
      [] plan.kind = "CartesianProduct" ->
            ExpandNodes(plan.left) \cup ExpandNodes(plan.right)

\* the input tuples of Expand node e in which both from_var and to_var are
\* bound to nodes
JoinInputs(e) ==
    {t \in execute_node(e.input, QueryStore) :
        /\ e.from_var \in DOMAIN t
        /\ t[e.from_var].t = "NodeId"
        /\ e.to_var \in DOMAIN t
        /\ t[e.to_var].t = "NodeId"}

\* C21: a single-hop Expand whose to_var the incoming tuple already binds
\* keeps exactly the neighbours whose id is the bound id: every tuple it
\* emits leaves to_var as it was, and a neighbour with the bound id is emitted.
C21_ExpandIsEquijoin ==
    (planned.op = "match" /\ planned.res # InvalidArgument) =>
        \A e \in ExpandNodes(planned.res.ok) :
            \A t \in JoinInputs(e) :
                /\ \A u \in ExpandTuple(QueryStore, t, e) :
                      u[e.to_var] = t[e.to_var]
                /\ (\E nb \in AsSet(get_neighbors(QueryStore,
                                                  t[e.from_var].id, None)) :
                       nb[2].id = t[e.to_var].id)
                      => ExpandTuple(QueryStore, t, e) # {}

\* C29: in every MATCH plan the from_var of each Expand is bound, by a scan
\* or by an earlier Expand, inside the input of that Expand.
C29_ExpandFromVarBound ==
    (planned.op = "match" /\ planned.res # InvalidArgument) =>
        \A e \in ExpandNodes(planned.res.ok) :
            e.from_var \in BoundBy(e.input)

\* C30: for every edge pattern whose target node has a variable and a label
\* L, every tuple the plan produces binds that variable to a node of the
\* store that carries L.
C30_TargetLabelEnforced ==
    (planned.op = "match" /\ planned.res # InvalidArgument) =>
        \A i \in DOMAIN planned.patterns :
            LET pat == planned.patterns[i]
            IN (/\ IsEdge(pat)
                /\ pat.edge.to_node.variable # None
                /\ pat.edge.to_node.labels # <<>>) =>
                  \A t \in planned.rows :
                      LET v == pat.edge.to_node.variable.some
                      IN /\ v \in DOMAIN t
                         /\ t[v].t = "NodeId"
                         /\ t[v].id \in DOMAIN QueryStore.nodes
                         /\ HasLabel(QueryStore.nodes[t[v].id].labels,
                                     pat.edge.to_node.labels[1])


\* the published manifest with the greatest version_ts: None or Some(meta)
LatestPublished ==
    IF Published = {} THEN None
    ELSE Some(CHOOSE m \in Published :
                 \A o \in Published : o.version_ts <= m.version_ts)

\* WAL tail a is tail b or an earlier one
TailLeq(a, b) == a.epoch < b.epoch \/ (a.epoch = b.epoch /\ a.seq <= b.seq)

\* every manifest file of the branch holds a whole document
AllWhole ==
    \A n \in ManifestNames(mdir) : read_manifest(mdir, inodes, n) # StorageIo

\* C26: once the latest manifest of the branch carries a wal_tail t, every
\* step that leaves the manifest files whole leaves the branch with a latest
\* manifest whose wal_tail is t or a later tail.
C26_WalTailNeverRegresses ==
    [][(/\ LatestPublished # None
        /\ LatestPublished.some.wal_tail # None
        /\ AllWhole /\ AllWhole')
          => /\ LatestPublished' # None
             /\ LatestPublished'.some.wal_tail # None
             /\ TailLeq(LatestPublished.some.wal_tail.some,
                        LatestPublished'.some.wal_tail.some)]_vars


\* C25: scan_all returns all nodes of the store in insertion order, which
\* for a store built by add_node is the ascending order of the ids.
C25_ScanAllInInsertionOrder ==
    [][GraphCall("scan_all") =>
          /\ {gres'.res[i].id : i \in DOMAIN gres'.res} = DOMAIN store.nodes
          /\ \A i, j \in DOMAIN gres'.res :
                i < j => gres'.res[i].id < gres'.res[j].id]_vars


\* the edges of the traversed store that a traversal may follow
Followed(s, edge_types) ==
    {e \in {s.edges[id] : id \in DOMAIN s.edges} :
        /\ e.from_node \in DOMAIN s.nodes
        /\ e.to_node \in DOMAIN s.nodes
        /\ (edge_types = <<>> \/ e.edge_type \in AsSet(edge_types))}

\* the nodes one edge away from a node of X, in the direction
OneHop(s, X, edge_types, direction) ==
    {e.to_node : e \in {f \in Followed(s, edge_types) :
                           direction \in {"Right", "Both"} /\ f.from_node \in X}}
    \cup
    {e.from_node : e \in {f \in Followed(s, edge_types) :
                             direction \in {"Left", "Both"} /\ f.to_node \in X}}

\* the nodes at distance <= k from the start node
RECURSIVE Within(_, _, _, _, _)
Within(s, start_id, edge_types, direction, k) ==
    IF k = 0 THEN {start_id}
    ELSE LET X == Within(s, start_id, edge_types, direction, k - 1)
         IN X \cup OneHop(s, X, edge_types, direction)

\* the nodes whose shortest-path distance d from the start node satisfies
\* min <= d <= max, without the start node
InRange(s, start_id, edge_types, direction, min_depth, max_depth) ==
    LET n == Cardinality(DOMAIN s.nodes)
        hi == IF max_depth < n THEN max_depth ELSE n
    IN {x \in DOMAIN s.nodes :
           /\ x # start_id
           /\ \E d \in min_depth..hi :
                 /\ x \in Within(s, start_id, edge_types, direction, d)
                 /\ d > 0 => x \notin Within(s, start_id, edge_types,
                                             direction, d - 1)}

C27_TraversalTerminates ==
    /\ [](bfs.pc # "idle" =>
             /\ \A i, j \in DOMAIN bfs.pushed :
                   bfs.pushed[i] = bfs.pushed[j] => i = j
             /\ bfs.pops <= Cardinality(DOMAIN bfs.store.nodes))
    /\ (bfs.pc = "run") ~> (bfs.pc = "done")

\* a traversal with an open upper depth over the cycle and the self-loop
\* has returned after popping every node once
C27_Witness ==
    /\ bfs.pc = "done"
    /\ {1, 2, 3, 4} \subseteq bfs.chosen
    /\ bfs.max_depth = U32Max
    /\ bfs.direction = "Both"
    /\ bfs.pops = 3

\* the left operand of the evaluated AND / OR yields the Bool that decides it
LeftDecided ==
    /\ ev.op = "eval"
    /\ ev.expr.e = "BinaryOp"
    /\ LET l == eval_expr(ev.expr.left, ev.tuple, ev.parameters)
       IN \/ ev.expr.op = "And" /\ l = [ok |-> Bool(FALSE)]
          \/ ev.expr.op = "Or" /\ l = [ok |-> Bool(TRUE)]

\* C23: `false AND e` evaluates to false and `true OR e` to true whatever
\* the right operand e is, also when evaluating e fails.
C23_AndOrShortCircuit ==
    LeftDecided =>
        ev.res = [ok |-> Bool(ev.expr.op = "Or")]

\* some RETURN item of the executed query fails on some tuple of the input
ItemFails ==
    /\ ev.op = "execute"
    /\ \E t \in execute_node(ev.input, EvalStore), i \in DOMAIN ev.items :
          eval_expr(ev.items[i].expr, t, ev.parameters) = InvalidArgument

\* C24: when the evaluation of a RETURN item fails, execute returns
\* InvalidArgument instead of a result with rows.
C24_ProjectErrorsPropagate ==
    ItemFails => ev.res = InvalidArgument

\* C28: a CREATE or MATCH ... CREATE that returns an error leaves the store
\* as it was: no node or edge of the query, and the id counters unchanged.
C28_FailingCreateLeavesStore ==
    [][(ev.op = "none" /\ ev'.op = "create" /\ ev'.res = InvalidArgument)
          => store' = store]_vars

=============================================================================
